---------------------------- MODULE Spec2Model ----------------------------
(***************************************************************************)
(* State-machine model of the BharatConnect backend core:                  *)
(*   - utils/rate_limit.py   sliding-window RateLimiter                    *)
(*   - routes/chat.py        session store, profile extraction, chat turn  *)
(*   - data/schemes.py       scheme catalog and eligibility evaluator      *)
(*   - services/llm_service.py  template / LLM reply generation            *)
(* Time is the value datetime.now() returns, in whole seconds since the    *)
(* process started.                                                        *)
(***************************************************************************)
EXTENDS Integers, Sequences, FiniteSets, TLC

VARIABLES
    now,                  \* the wall clock read by datetime.now()
    limiter,              \* a RateLimiter instance (class-level exercise)
    admitted,             \* ghost: per key, the times at which limiter admitted a request
    reference,            \* ghost: limiter as it is when cleanup() is never called
    tasks,                \* the requests in flight: where each handler stands, its locals
    sms_limiter,          \* rate_limit.py:78
    chat_limiter,         \* rate_limit.py:79
    eligibility_limiter,  \* rate_limit.py:80
    sessions,             \* chat.py:34, session_id -> session dict
    llm_service,          \* main.py:46, the LLMService instance (its field available)
    scheme_catalog,       \* schemes.py:7, the module-level list SCHEMES
    sms_service,          \* main.py:47, the SMSService instance (its field available)
    last                  \* the last operation performed: its inputs and its result

vars == <<now, limiter, admitted, reference, tasks, sms_limiter, chat_limiter, eligibility_limiter,
          sessions, llm_service, scheme_catalog, sms_service, last>>

----------------------------------------------------------------------------
(* Bounds of the model *)

\* how many times the clock may advance while the RateLimiter class is
\* exercised on its own
MaxTicks == 3

\* how many times the clock may advance between chat requests
MaxChatTicks == 2

\* how many turns a session handles before it expires, when the requests come
\* in any order
MaxTurns == 2

\* how many turns a session handles before it expires, when the client answers
\* what it is asked
MaxDialogueTurns == 5

\* how many requests with a malformed session id are made within one window
MaxMalformed == 1

\* the largest max_requests a RateLimiter is constructed with when the class is
\* exercised on its own
MaxRequests == 2

----------------------------------------------------------------------------
(* Generic helpers *)

EmptyDict == [k \in {} |-> 0]

\* d[k] = v on a dict modelled as a function with a finite domain
DictSet(d, k, v) == [x \in (DOMAIN d) \cup {k} |-> IF x = k THEN v ELSE d[x]]

\* del d[k] for every k in ks
DictDel(d, ks) == [x \in (DOMAIN d) \ ks |-> d[x]]

\* [x for x in s if Test(x)]
RECURSIVE FilterGT(_, _)
FilterGT(s, bound) ==
    IF s = <<>> THEN <<>>
    ELSE IF Head(s) > bound THEN <<Head(s)>> \o FilterGT(Tail(s), bound)
         ELSE FilterGT(Tail(s), bound)

----------------------------------------------------------------------------
(* Python values *)

\* Optional[T]: None is the empty tuple, a value v is <<v>>
None == <<>>
Some(v) == <<v>>
IsNone(o) == o = <<>>
Val(o) == o[1]

----------------------------------------------------------------------------
(* str and re, as far as the handlers use them.  A str is a TLA+ string;   *)
(* its i-th character is the one-character string Ch(s, i).               *)

Ch(s, i) == SubSeq(s, i, i)

DigitChars == {"0", "1", "2", "3", "4", "5", "6", "7", "8", "9"}

UpperChars == "ABCDEFGHIJKLMNOPQRSTUVWXYZ"
LowerChars == "abcdefghijklmnopqrstuvwxyz"

UpperSet == {Ch(UpperChars, i) : i \in 1..26}
LowerSet == {Ch(LowerChars, i) : i \in 1..26}

\* the lower-case letter of each upper-case letter
LowerOf == [c \in UpperSet |-> Ch(LowerChars, CHOOSE i \in 1..26 : Ch(UpperChars, i) = c)]

IsDigit(c) == c \in DigitChars
IsUpper(c) == c \in UpperSet
IsLower(c) == c \in LowerSet

\* \w of re: letters, digits and the underscore
WordChars == DigitChars \cup UpperSet \cup LowerSet \cup {"_"}
IsWordChar(c) == c \in WordChars

\* \s of re, str.strip()
IsSpace(c) == c \in {" ", "\t", "\n", "\r"}

DigitVal(c) ==
    CASE c = "0" -> 0 [] c = "1" -> 1 [] c = "2" -> 2 [] c = "3" -> 3
      [] c = "4" -> 4 [] c = "5" -> 5 [] c = "6" -> 6 [] c = "7" -> 7
      [] c = "8" -> 8 [] c = "9" -> 9

LowerChar(c) == IF IsUpper(c) THEN LowerOf[c] ELSE c

\* str.lower(), character by character (the string is halved to keep the
\* evaluation shallow)
RECURSIVE StrLower(_)
StrLower(s) ==
    IF Len(s) = 0 THEN ""
    ELSE IF Len(s) = 1 THEN LowerChar(s)
    ELSE LET h == Len(s) \div 2
         IN  StrLower(SubSeq(s, 1, h)) \o StrLower(SubSeq(s, h + 1, Len(s)))

\* str.strip()
RECURSIVE StrStrip(_)
StrStrip(s) ==
    IF Len(s) = 0 THEN ""
    ELSE IF IsSpace(Ch(s, 1)) THEN StrStrip(SubSeq(s, 2, Len(s)))
    ELSE IF IsSpace(Ch(s, Len(s))) THEN StrStrip(SubSeq(s, 1, Len(s) - 1))
    ELSE s

\* needle in hay
StrContains(hay, needle) ==
    \E i \in 1..(Len(hay) - Len(needle) + 1) :
        SubSeq(hay, i, i + Len(needle) - 1) = needle

\* str.replace(old, '') for a one-character old
RECURSIVE StrRemoveChar(_, _)
StrRemoveChar(s, c) ==
    IF Len(s) = 0 THEN ""
    ELSE (IF Ch(s, 1) = c THEN "" ELSE Ch(s, 1)) \o StrRemoveChar(SubSeq(s, 2, Len(s)), c)

\* int() of a string of decimal digits
RECURSIVE DigitsToInt(_)
DigitsToInt(s) ==
    IF Len(s) = 0 THEN 0
    ELSE 10 * DigitsToInt(SubSeq(s, 1, Len(s) - 1)) + DigitVal(Ch(s, Len(s)))

RECURSIVE Pow10(_)
Pow10(k) == IF k = 0 THEN 1 ELSE 10 * Pow10(k - 1)

\* \b of re at the gap before character i (1 <= i <= Len(s) + 1)
WordAt(s, i) == i >= 1 /\ i <= Len(s) /\ IsWordChar(Ch(s, i))
WordBoundary(s, i) == WordAt(s, i - 1) # WordAt(s, i)

\* the end of the longest run of digits that starts at i (i - 1 when there is none)
RECURSIVE DigitRunEnd(_, _)
DigitRunEnd(s, i) ==
    IF i <= Len(s) /\ IsDigit(Ch(s, i)) THEN DigitRunEnd(s, i + 1) ELSE i - 1

----------------------------------------------------------------------------
(* utils/rate_limit.py *)

\* RateLimiter.__init__
RateLimiter(max_requests, window_seconds) ==
    [max_requests |-> max_requests, window_seconds |-> window_seconds,
     requests |-> EmptyDict]

\* the timestamps of key that survive the pruning of is_allowed, lines 40-47
Pruned(rl, key, t) ==
    LET window_start == t - rl.window_seconds
        cur == IF key \in DOMAIN rl.requests THEN rl.requests[key] ELSE <<>>
    IN  FilterGT(cur, window_start)

\* a plausible slip: remaining >= 0 admits one request too many
IsAllowedOffByOne(rl, key, t) ==
    LET kept == Pruned(rl, key, t)
        remaining == rl.max_requests - Len(kept)
    IN  IF remaining >= 0
        THEN [allowed |-> TRUE, remaining |-> remaining,
              rl |-> [rl EXCEPT !.requests = DictSet(rl.requests, key, Append(kept, t))]]
        ELSE [allowed |-> FALSE, remaining |-> 0,
              rl |-> [rl EXCEPT !.requests = DictSet(rl.requests, key, kept)]]

\* a plausible slip: the window is never pruned, so a key stays blocked for ever
IsAllowedNoPrune(rl, key, t) ==
    LET kept == IF key \in DOMAIN rl.requests THEN rl.requests[key] ELSE <<>>
        remaining == rl.max_requests - Len(kept)
    IN  IF remaining > 0
        THEN [allowed |-> TRUE, remaining |-> remaining,
              rl |-> [rl EXCEPT !.requests = DictSet(rl.requests, key, Append(kept, t))]]
        ELSE [allowed |-> FALSE, remaining |-> 0,
              rl |-> [rl EXCEPT !.requests = DictSet(rl.requests, key, kept)]]

\* a plausible slip: the rejected request is recorded as well
IsAllowedCountsRejected(rl, key, t) ==
    LET kept == Pruned(rl, key, t)
        remaining == rl.max_requests - Len(kept)
    IN  IF remaining > 0
        THEN [allowed |-> TRUE, remaining |-> remaining,
              rl |-> [rl EXCEPT !.requests = DictSet(rl.requests, key, Append(kept, t))]]
        ELSE [allowed |-> FALSE, remaining |-> 0,
              rl |-> [rl EXCEPT !.requests = DictSet(rl.requests, key, Append(kept, t))]]

\* a plausible slip: req_time >= window_start keeps the request made exactly
\* window_seconds ago
IsAllowedKeepsBoundary(rl, key, t) ==
    LET cur == IF key \in DOMAIN rl.requests THEN rl.requests[key] ELSE <<>>
        kept == FilterGT(cur, t - rl.window_seconds - 1)
        remaining == rl.max_requests - Len(kept)
    IN  IF remaining > 0
        THEN [allowed |-> TRUE, remaining |-> remaining,
              rl |-> [rl EXCEPT !.requests = DictSet(rl.requests, key, Append(kept, t))]]
        ELSE [allowed |-> FALSE, remaining |-> 0,
              rl |-> [rl EXCEPT !.requests = DictSet(rl.requests, key, kept)]]

\* a plausible slip: a fixed window instead of a sliding one: once the oldest
\* stored request is out of the window the whole list is dropped
IsAllowedFixedWindow(rl, key, t) ==
    LET cur == IF key \in DOMAIN rl.requests THEN rl.requests[key] ELSE <<>>
        kept == IF FilterGT(cur, t - rl.window_seconds) = cur THEN cur ELSE <<>>
        remaining == rl.max_requests - Len(kept)
    IN  IF remaining > 0
        THEN [allowed |-> TRUE, remaining |-> remaining,
              rl |-> [rl EXCEPT !.requests = DictSet(rl.requests, key, Append(kept, t))]]
        ELSE [allowed |-> FALSE, remaining |-> 0,
              rl |-> [rl EXCEPT !.requests = DictSet(rl.requests, key, kept)]]

\* RateLimiter.is_allowed called at time t: the result and the limiter afterwards
IsAllowed(rl, key, t) ==
    LET kept == Pruned(rl, key, t)
        remaining == rl.max_requests - Len(kept)
    IN  IF remaining > 0
        THEN [allowed |-> TRUE, remaining |-> remaining,
              rl |-> [rl EXCEPT !.requests = DictSet(rl.requests, key, Append(kept, t))]]
        ELSE [allowed |-> FALSE, remaining |-> 0,
              rl |-> [rl EXCEPT !.requests = DictSet(rl.requests, key, kept)]]

\* a plausible slip: a key is removed as soon as one of its timestamps is old
CleanupDropsAgedKeys(rl, t) ==
    LET window_start == t - rl.window_seconds
        keys_to_remove == {k \in DOMAIN rl.requests :
                              FilterGT(rl.requests[k], window_start) # rl.requests[k]}
    IN  [rl EXCEPT !.requests = DictDel(rl.requests, keys_to_remove)]

\* RateLimiter.cleanup called at time t
Cleanup(rl, t) ==
    LET window_start == t - rl.window_seconds
        pruned == [k \in DOMAIN rl.requests |-> FilterGT(rl.requests[k], window_start)]
        keys_to_remove == {k \in DOMAIN pruned : pruned[k] = <<>>}
    IN  [rl EXCEPT !.requests = DictDel(pruned, keys_to_remove)]

\* the three module-level instances
SmsLimiterInit == RateLimiter(5, 60)
ChatLimiterInit == RateLimiter(20, 60)
EligibilityLimiterInit == RateLimiter(30, 60)


----------------------------------------------------------------------------
(* data/schemes.py.  The rupee sign of the source texts is written "Rs."   *)
(* and the bullet that joins the reasons " * ": the module is ASCII.       *)

\* a catalog of two records with one id, the second without documents and
\* with its age bounds crossed
SchemesMalformed == <<
    [id |-> "scheme_1", name |-> "National Scholarship Portal - Merit Scholarship",
     state |-> "ALL", category |-> "ALL",
     income_max |-> 250000, age_min |-> 17, age_max |-> 25,
     benefits |-> "", documents |-> << "Aadhaar Card" >>,
     apply_link |-> "https://scholarships.gov.in"],
    [id |-> "scheme_1", name |-> "PM YASASVI Scholarship",
     state |-> "ALL", category |-> "OBC",
     income_max |-> 250000, age_min |-> 25, age_max |-> 15,
     benefits |-> "", documents |-> << >>,
     apply_link |-> "https://yet.nta.ac.in"] >>

SCHEMES == <<
    [id |-> "scheme_1",
     name |-> "National Scholarship for Higher Education",
     state |-> "ALL", category |-> "ALL",
     income_max |-> 250000, age_min |-> 17, age_max |-> 25,
     benefits |-> "Full tuition fee reimbursement up to Rs.50,000 per year plus Rs.10,000 annual book allowance for undergraduate students.",
     documents |-> << "Aadhaar Card", "Income Certificate", "Previous Year Marksheet", "Bank Passbook", "College Admission Letter" >>,
     apply_link |-> "https://scholarships.gov.in"],
    [id |-> "scheme_2",
     name |-> "PM YASASVI Scholarship",
     state |-> "ALL", category |-> "OBC",
     income_max |-> 250000, age_min |-> 15, age_max |-> 25,
     benefits |-> "Annual scholarship of Rs.75,000 for Class 9-10 students and Rs.1,25,000 for Class 11-12 students from OBC, EBC, and DNT categories.",
     documents |-> << "Caste Certificate", "Income Certificate", "Aadhaar Card", "School Bonafide", "Parent ID Proof" >>,
     apply_link |-> "https://yet.nta.ac.in"],
    [id |-> "scheme_3",
     name |-> "Post Matric Scholarship for SC Students",
     state |-> "ALL", category |-> "SC",
     income_max |-> 300000, age_min |-> 15, age_max |-> 35,
     benefits |-> "Complete tuition and examination fees covered, plus monthly maintenance allowance of Rs.550-1200 based on course level.",
     documents |-> << "Caste Certificate", "Income Certificate", "Previous Marksheet", "Aadhaar Card", "Bank Account Details" >>,
     apply_link |-> "https://scholarships.gov.in"],
    [id |-> "scheme_4",
     name |-> "Maharashtra State Merit Scholarship",
     state |-> "Maharashtra", category |-> "ALL",
     income_max |-> 800000, age_min |-> 16, age_max |-> 25,
     benefits |-> "Merit-based scholarship of Rs.5,000-25,000 per year for students scoring above 75% in board exams.",
     documents |-> << "Domicile Certificate", "Marksheet", "Income Certificate", "Aadhaar Card" >>,
     apply_link |-> "https://mahadbt.maharashtra.gov.in"],
    [id |-> "scheme_5",
     name |-> "Karnataka Vidyasiri Scholarship",
     state |-> "Karnataka", category |-> "ALL",
     income_max |-> 200000, age_min |-> 17, age_max |-> 25,
     benefits |-> "Annual scholarship ranging from Rs.11,000 to Rs.50,000 based on course for students from economically weaker sections.",
     documents |-> << "Income Certificate", "Caste Certificate", "Aadhaar Card", "College ID", "Fee Receipt" >>,
     apply_link |-> "https://karepass.karnataka.gov.in"],
    [id |-> "scheme_6",
     name |-> "Central Sector Scholarship for College Students",
     state |-> "ALL", category |-> "ALL",
     income_max |-> 450000, age_min |-> 17, age_max |-> 25,
     benefits |-> "Rs.12,000 per annum for graduation (first 3 years), Rs.20,000 for post-graduation. Top 20 percentile of 12th board students.",
     documents |-> << "12th Marksheet", "Income Certificate", "Aadhaar Card", "Bank Details", "College Admission Proof" >>,
     apply_link |-> "https://scholarships.gov.in"],
    [id |-> "scheme_7",
     name |-> "Pragati Scholarship for Girl Students",
     state |-> "ALL", category |-> "ALL",
     income_max |-> 800000, age_min |-> 17, age_max |-> 30,
     benefits |-> "Rs.50,000 per year for girl students pursuing technical education. Only 2 girls per family eligible.",
     documents |-> << "Aadhaar Card", "Income Certificate", "Previous Marksheet", "Bank Account", "Institute Bonafide" >>,
     apply_link |-> "https://aicte-pragati-saksham-gov.in"],
    [id |-> "scheme_8",
     name |-> "UP Scholarship for Minority Students",
     state |-> "Uttar Pradesh", category |-> "Minority",
     income_max |-> 200000, age_min |-> 14, age_max |-> 30,
     benefits |-> "Full fee reimbursement for minority community students including Muslims, Christians, Sikhs, Buddhists, and Parsis.",
     documents |-> << "Minority Certificate", "Income Certificate", "Aadhaar", "Previous Marksheet", "Bank Passbook" >>,
     apply_link |-> "https://scholarship.up.gov.in"],
    [id |-> "scheme_9",
     name |-> "Pre Matric Scholarship for ST Students",
     state |-> "ALL", category |-> "ST",
     income_max |-> 200000, age_min |-> 10, age_max |-> 18,
     benefits |-> "Monthly stipend of Rs.150-350 for day scholars and Rs.500-750 for hostellers studying in Class 9-10.",
     documents |-> << "Tribe Certificate", "Income Certificate", "School ID", "Aadhaar Card", "Parent Bank Account" >>,
     apply_link |-> "https://scholarships.gov.in"],
    [id |-> "scheme_10",
     name |-> "Tamil Nadu Free Education Scheme",
     state |-> "Tamil Nadu", category |-> "ALL",
     income_max |-> 500000, age_min |-> 6, age_max |-> 25,
     benefits |-> "Complete fee waiver in government schools and colleges plus free textbooks, uniforms, and mid-day meals.",
     documents |-> << "Community Certificate", "Income Certificate", "Aadhaar Card", "School Bonafide" >>,
     apply_link |-> "https://tnscholarships.gov.in"] >>

\* str(d) for one decimal digit
DigitStr(d) == Ch("0123456789", d + 1)

\* str(n)
RECURSIVE IntToStr(_)
IntToStr(n) ==
    IF n < 0 THEN "-" \o IntToStr(0 - n)
    ELSE IF n < 10 THEN DigitStr(n)
    ELSE IntToStr(n \div 10) \o DigitStr(n % 10)

\* f"{n:,}"
RECURSIVE FormatComma(_)
FormatComma(n) ==
    IF n < 0 THEN "-" \o FormatComma(0 - n)
    ELSE IF n < 1000 THEN IntToStr(n)
    ELSE FormatComma(n \div 1000) \o "," \o DigitStr((n % 1000) \div 100)
         \o DigitStr((n % 100) \div 10) \o DigitStr(n % 10)

\* sep.join(parts)
RECURSIVE StrJoin(_, _)
StrJoin(parts, sep) ==
    IF Len(parts) = 0 THEN ""
    ELSE IF Len(parts) = 1 THEN parts[1]
    ELSE parts[1] \o sep \o StrJoin(Tail(parts), sep)

ReasonSeparator == " * "

\* the explanation is_eligible returns for a profile that meets every criterion
EligibleReason(user_profile, scheme) ==
    StrJoin(<< "Age " \o IntToStr(user_profile.age) \o " is within "
               \o IntToStr(scheme.age_min) \o "-" \o IntToStr(scheme.age_max) \o " range",
               "Income Rs." \o FormatComma(user_profile.income) \o " is below limit" >>
            \o (IF scheme.category # "ALL"
                THEN << user_profile.category \o " category matches" >> ELSE << >>)
            \o (IF scheme.state # "ALL"
                THEN << user_profile.state \o " state matches" >> ELSE << >>),
            ReasonSeparator)

\* is_eligible with the income ceiling exclusive (>= for > in line 151)
IsEligibleIncomeExclusive(user_profile, scheme) ==
    IF user_profile.age < scheme.age_min \/ user_profile.age > scheme.age_max
    THEN << FALSE, "Age must be between " \o IntToStr(scheme.age_min) \o "-"
                   \o IntToStr(scheme.age_max) >>
    ELSE IF user_profile.income >= scheme.income_max
    THEN << FALSE, "Income must be below Rs." \o FormatComma(scheme.income_max) >>
    ELSE IF scheme.category # "ALL" /\ scheme.category # user_profile.category
    THEN << FALSE, "This scheme is for " \o scheme.category \o " category only" >>
    ELSE IF scheme.state # "ALL" /\ scheme.state # user_profile.state
    THEN << FALSE, "This scheme is only for " \o scheme.state >>
    ELSE << TRUE, EligibleReason(user_profile, scheme) >>

\* is_eligible with the income check moved in front of the age check
IsEligibleIncomeFirst(user_profile, scheme) ==
    IF user_profile.income > scheme.income_max
    THEN << FALSE, "Income must be below Rs." \o FormatComma(scheme.income_max) >>
    ELSE IF user_profile.age < scheme.age_min \/ user_profile.age > scheme.age_max
    THEN << FALSE, "Age must be between " \o IntToStr(scheme.age_min) \o "-"
                   \o IntToStr(scheme.age_max) >>
    ELSE IF scheme.category # "ALL" /\ scheme.category # user_profile.category
    THEN << FALSE, "This scheme is for " \o scheme.category \o " category only" >>
    ELSE IF scheme.state # "ALL" /\ scheme.state # user_profile.state
    THEN << FALSE, "This scheme is only for " \o scheme.state >>
    ELSE << TRUE, EligibleReason(user_profile, scheme) >>

\* is_eligible without the state check of lines 163-164
IsEligibleAnyState(user_profile, scheme) ==
    IF user_profile.age < scheme.age_min \/ user_profile.age > scheme.age_max
    THEN << FALSE, "Age must be between " \o IntToStr(scheme.age_min) \o "-"
                   \o IntToStr(scheme.age_max) >>
    ELSE IF user_profile.income > scheme.income_max
    THEN << FALSE, "Income must be below Rs." \o FormatComma(scheme.income_max) >>
    ELSE IF scheme.category # "ALL" /\ scheme.category # user_profile.category
    THEN << FALSE, "This scheme is for " \o scheme.category \o " category only" >>
    ELSE << TRUE, EligibleReason(user_profile, scheme) >>

\* is_eligible: <<eligible, reason>>
IsEligible(user_profile, scheme) ==
    LET age_reason == "Age " \o IntToStr(user_profile.age) \o " is within "
                      \o IntToStr(scheme.age_min) \o "-" \o IntToStr(scheme.age_max) \o " range"
        income_reason == "Income Rs." \o FormatComma(user_profile.income) \o " is below limit"
        category_reasons == IF scheme.category # "ALL"
                            THEN << user_profile.category \o " category matches" >>
                            ELSE << >>
        state_reasons == IF scheme.state # "ALL"
                         THEN << user_profile.state \o " state matches" >>
                         ELSE << >>
    IN  IF user_profile.age < scheme.age_min \/ user_profile.age > scheme.age_max
        THEN << FALSE, "Age must be between " \o IntToStr(scheme.age_min) \o "-"
                       \o IntToStr(scheme.age_max) >>
        ELSE IF user_profile.income > scheme.income_max
        THEN << FALSE, "Income must be below Rs." \o FormatComma(scheme.income_max) >>
        ELSE IF scheme.category # "ALL" /\ scheme.category # user_profile.category
        THEN << FALSE, "This scheme is for " \o scheme.category \o " category only" >>
        ELSE IF scheme.state # "ALL" /\ scheme.state # user_profile.state
        THEN << FALSE, "This scheme is only for " \o scheme.state >>
        ELSE << TRUE, StrJoin(<<age_reason, income_reason>> \o category_reasons \o state_reasons,
                              ReasonSeparator) >>

\* scheme.copy() with scheme_with_reason["eligibilityReason"] = reason
WithReason(scheme, reason) ==
    [id |-> scheme.id, name |-> scheme.name, state |-> scheme.state,
     category |-> scheme.category, income_max |-> scheme.income_max,
     age_min |-> scheme.age_min, age_max |-> scheme.age_max,
     benefits |-> scheme.benefits, documents |-> scheme.documents,
     apply_link |-> scheme.apply_link, eligibilityReason |-> reason]

\* the loop of get_eligible_schemes inserting each eligible scheme in front
\* of the list instead of appending it
RECURSIVE EligibleFromPrepending(_, _, _)
EligibleFromPrepending(user_profile, catalog, i) ==
    IF i > Len(catalog) THEN << >>
    ELSE EligibleFromPrepending(user_profile, catalog, i + 1)
         \o (IF IsEligible(user_profile, catalog[i])[1]
             THEN << WithReason(catalog[i], IsEligible(user_profile, catalog[i])[2]) >>
             ELSE << >>)

\* the loop of get_eligible_schemes over catalog[i..]
RECURSIVE EligibleFrom(_, _, _)
EligibleFrom(user_profile, catalog, i) ==
    IF i > Len(catalog) THEN << >>
    ELSE LET r == IsEligible(user_profile, catalog[i])
         IN  (IF r[1] THEN << WithReason(catalog[i], r[2]) >> ELSE << >>)
             \o EligibleFrom(user_profile, catalog, i + 1)

\* get_eligible_schemes
GetEligibleSchemes(user_profile) == EligibleFrom(user_profile, SCHEMES, 1)

\* get_eligible_schemes assigning the reason to the catalog record itself
\* (no scheme.copy())
CatalogRecordAssigned(scheme, reason) == WithReason(scheme, reason)

\* get_eligible_schemes, lines 186-187: what has become of the catalog record
\* of an eligible scheme once the reason is assigned to its copy
CatalogRecordAfter(scheme, reason) == scheme

\* the record at one position of the module-level list after the loop body ran
\* for it with the result r of is_eligible
CatalogRecord(scheme, r) ==
    IF r[1] THEN CatalogRecordAfter(scheme, r[2]) ELSE scheme

\* the module-level list after get_eligible_schemes(user_profile) ran over it
CatalogAfter(user_profile, catalog) ==
    [i \in 1..Len(catalog) |-> CatalogRecord(catalog[i], IsEligible(user_profile, catalog[i]))]

\* UserProfile.to_dict of a complete profile
ToDict(profile) ==
    [age |-> Val(profile.age), income |-> Val(profile.income),
     state |-> Val(profile.state), category |-> Val(profile.category)]

----------------------------------------------------------------------------
(* models/schemas.py *)

\* UserProfile(): the four optional fields, all None
UserProfile == [age |-> None, income |-> None, state |-> None, category |-> None]

\* UserProfile.is_complete
IsComplete(profile) ==
    /\ ~IsNone(profile.age)
    /\ ~IsNone(profile.income)
    /\ ~IsNone(profile.state)
    /\ ~IsNone(profile.category)

----------------------------------------------------------------------------
(* What the clients send and what the collaborators return: the values the *)
(* specifications below draw their requests from.                          *)

SidA == "3f2504e0-4f89-41d3-9a0c-0305e82c3301"
SidB == "9b2d7c1a-0e4f-4a6b-8c3d-5e6f7a8b9c0d"
SidMalformed == "not-a-uuid"

\* the message of a request
Messages == {"Hello", "I am 20 years old", "2 lakhs per year", "Maharashtra", "General"}

FullProfile ==
    [age |-> Some(20), income |-> Some(200000), state |-> Some("Maharashtra"),
     category |-> Some("General")]

\* complete explicit profiles with no, one, two, three and four eligible schemes
ReplyProfiles ==
    {[age |-> Some(50), income |-> Some(200000), state |-> Some("Kerala"),
      category |-> Some("OBC")],
     [age |-> Some(28), income |-> Some(500000), state |-> Some("Kerala"),
      category |-> Some("General")],
     [age |-> Some(20), income |-> Some(300000), state |-> Some("Kerala"),
      category |-> Some("General")],
     [age |-> Some(20), income |-> Some(200000), state |-> Some("Kerala"),
      category |-> Some("General")],
     FullProfile}

\* the user_profile of a request: {} is UserProfile
Overrides ==
    {UserProfile,
     [UserProfile EXCEPT !.age = Some(20)],
     [UserProfile EXCEPT !.age = Some(50), !.category = Some("OBC")],
     FullProfile}

\* values of uuid.uuid4()
Tokens == {"token-1"}

\* contents Gemini may return
GeminiContents == {" <script>alert(1)</script>Apply <b onclick=x>now</b> for the schemes below. "}

----------------------------------------------------------------------------
(* routes/chat.py: session ids, prompts, extraction *)

SESSION_TIMEOUT_MINUTES == 30

\* timedelta(minutes=SESSION_TIMEOUT_MINUTES) in seconds
SessionTimeout == SESSION_TIMEOUT_MINUTES * 60

CharAt(s, i) == IF i >= 1 /\ i <= Len(s) THEN Ch(s, i) ELSE ""

\* [a-f0-9\-]
IsSessionIdChar(c) ==
    IsDigit(c) \/ c \in {"a", "b", "c", "d", "e", "f"} \/ c = "-"

\* VALID_SESSION_ID_PATTERN.match: ^[a-f0-9\-]{36}$, where $ also matches
\* just before a newline that ends the string
MatchesSessionIdPattern(s) ==
    /\ Len(s) >= 36
    /\ \A i \in 1..36 : IsSessionIdChar(Ch(s, i))
    /\ \/ Len(s) = 36
       \/ Len(s) = 37 /\ Ch(s, 37) = "\n"

\* validate_session_id raises HTTPException(400) exactly when this is FALSE
ValidSessionId(session_id) == MatchesSessionIdPattern(session_id)

AgePrompt ==
    "To help you find the right schemes, I need a few details. Let's start with your age. How old are you?"
IncomePrompt ==
    "Great! Now, what is your family's annual income in rupees?"
StatePrompt ==
    "Thank you! Which state are you from? (e.g., Maharashtra, Karnataka, Tamil Nadu, etc.)"
CategoryPrompt ==
    "Almost done! What is your category? (General, SC, ST, OBC, EWS, or Minority)"

\* a plausible slip: the income question is asked before the age question
GetNextProfileQuestionSwapped(profile) ==
    IF IsNone(profile.income) THEN Some(IncomePrompt)
    ELSE IF IsNone(profile.age) THEN Some(AgePrompt)
    ELSE IF IsNone(profile.state) THEN Some(StatePrompt)
    ELSE IF IsNone(profile.category) THEN Some(CategoryPrompt)
    ELSE None

\* get_next_profile_question
GetNextProfileQuestion(profile) ==
    IF IsNone(profile.age) THEN Some(AgePrompt)
    ELSE IF IsNone(profile.income) THEN Some(IncomePrompt)
    ELSE IF IsNone(profile.state) THEN Some(StatePrompt)
    ELSE IF IsNone(profile.category) THEN Some(CategoryPrompt)
    ELSE None

\* where r'\b(\d{1,2})\b' matches when tried at position i: the last position
\* of the match, 0 when it does not match there
AgeMatchEnd(s, i) ==
    IF WordBoundary(s, i) /\ IsDigit(CharAt(s, i))
    THEN IF IsDigit(CharAt(s, i + 1)) /\ WordBoundary(s, i + 2) THEN i + 1
         ELSE IF WordBoundary(s, i + 1) THEN i
         ELSE 0
    ELSE 0

\* re.search(r'\b(\d{1,2})\b', s): group 1 of the leftmost match, or None
AgeSearch(s) ==
    LET hits == {i \in 1..Len(s) : AgeMatchEnd(s, i) # 0}
    IN  IF hits = {} THEN None
        ELSE LET i == CHOOSE j \in hits : \A h \in hits : j <= h
             IN  Some(SubSeq(s, i, AgeMatchEnd(s, i)))

\* (?:,\d+)* continued greedily from the end e of what is matched so far
RECURSIVE CommaGroupsEnd(_, _)
CommaGroupsEnd(s, e) ==
    IF CharAt(s, e + 1) = "," /\ IsDigit(CharAt(s, e + 2))
    THEN CommaGroupsEnd(s, DigitRunEnd(s, e + 2))
    ELSE e

\* (?:\.\d+)? continued from e
FractionEnd(s, e) ==
    IF CharAt(s, e + 1) = "." /\ IsDigit(CharAt(s, e + 2))
    THEN DigitRunEnd(s, e + 2)
    ELSE e

\* re.search(r'(\d+(?:,\d+)*(?:\.\d+)?)\s*(?:lakh|lakhs|l|k|thousand)?', s):
\* group 1 of the leftmost match, or None.  The match starts at the first digit.
IncomeSearch(s) ==
    LET hits == {i \in 1..Len(s) : IsDigit(Ch(s, i))}
    IN  IF hits = {} THEN None
        ELSE LET i == CHOOSE j \in hits : \A h \in hits : j <= h
                 e == FractionEnd(s, CommaGroupsEnd(s, DigitRunEnd(s, i)))
             IN  Some(SubSeq(s, i, e))

\* int(float(income_str) * factor) for income_str = digits[.digits]: the
\* product truncated towards zero (exact arithmetic)
ScaledInt(income_str, factor) ==
    LET dots == {i \in 1..Len(income_str) : Ch(income_str, i) = "."}
    IN  IF dots = {} THEN DigitsToInt(income_str) * factor
        ELSE LET d == CHOOSE i \in dots : TRUE
                 whole == DigitsToInt(SubSeq(income_str, 1, d - 1))
                 frac == SubSeq(income_str, d + 1, Len(income_str))
                 scale == Pow10(Len(frac))
             IN  ((whole * scale + DigitsToInt(frac)) * factor) \div scale

States == <<
    "Andhra Pradesh", "Arunachal Pradesh", "Assam", "Bihar", "Chhattisgarh",
    "Goa", "Gujarat", "Haryana", "Himachal Pradesh", "Jharkhand", "Karnataka",
    "Kerala", "Madhya Pradesh", "Maharashtra", "Manipur", "Meghalaya", "Mizoram",
    "Nagaland", "Odisha", "Punjab", "Rajasthan", "Sikkim", "Tamil Nadu",
    "Telangana", "Tripura", "Uttar Pradesh", "Uttarakhand", "West Bengal",
    "Delhi", "Jammu and Kashmir", "Ladakh" >>

Categories == << "General", "SC", "ST", "OBC", "EWS", "Minority" >>

\* for name in names: if name.lower() in message_lower: return name
FirstNamed(names, message_lower) ==
    LET hits == {i \in 1..Len(names) : StrContains(message_lower, StrLower(names[i]))}
    IN  IF hits = {} THEN None
        ELSE Some(names[CHOOSE j \in hits : \A h \in hits : j <= h])

\* lines 123-128: the age the first branch finds in the message, None when
\* there is no match or the number is outside 1..120
ExtractAge(message) ==
    LET age_match == AgeSearch(message)
    IN  IF IsNone(age_match) THEN None
        ELSE LET age == DigitsToInt(Val(age_match))
             IN  IF 1 <= age /\ age <= 120 THEN Some(age) ELSE None

\* lines 131-144: the income the second branch finds
ExtractIncome(message_lower) ==
    LET income_match == IncomeSearch(message_lower)
    IN  IF IsNone(income_match) THEN None
        ELSE LET income_str == StrRemoveChar(Val(income_match), ",")
                 factor == IF StrContains(message_lower, "lakh")
                              \/ StrContains(message_lower, "l")
                           THEN 100000
                           ELSE IF StrContains(message_lower, "k")
                                   \/ StrContains(message_lower, "thousand")
                           THEN 1000
                           ELSE 1
             IN  Some(ScaledInt(income_str, factor))

\* what each branch of extract_profile_info finds in a message
Extracted(message) ==
    LET message_lower == StrStrip(StrLower(message))
    IN  [age |-> ExtractAge(message),
         income |-> ExtractIncome(message_lower),
         state |-> FirstNamed(States, message_lower),
         category |-> FirstNamed(Categories, message_lower)]

\* Extracted, tabulated once for the messages the specifications send
ExtractedOf == [m \in Messages |-> Extracted(m)]
Found(message) ==
    IF message \in DOMAIN ExtractedOf THEN ExtractedOf[message] ELSE Extracted(message)

\* a plausible slip: independent ifs instead of the elif chain, so one message
\* can fill several fields
FillFromAllFields(found, profile) ==
    [age |-> IF IsNone(profile.age) THEN found.age ELSE profile.age,
     income |-> IF IsNone(profile.income) THEN found.income ELSE profile.income,
     state |-> IF IsNone(profile.state) THEN found.state ELSE profile.state,
     category |-> IF IsNone(profile.category) THEN found.category ELSE profile.category]

\* a plausible slip: every branch runs and stores what it finds, whether the
\* field is set or not
FillFromOverwriting(found, profile) ==
    [age |-> IF IsNone(found.age) THEN profile.age ELSE found.age,
     income |-> IF IsNone(found.income) THEN profile.income ELSE found.income,
     state |-> IF IsNone(found.state) THEN profile.state ELSE found.state,
     category |-> IF IsNone(found.category) THEN profile.category ELSE found.category]

\* a plausible slip: a branch that finds nothing falls through to the next
\* unset field
FillFromFallingThrough(found, profile) ==
    IF IsNone(profile.age) /\ ~IsNone(found.age)
    THEN [profile EXCEPT !.age = found.age]
    ELSE IF IsNone(profile.income) /\ ~IsNone(found.income)
    THEN [profile EXCEPT !.income = found.income]
    ELSE IF IsNone(profile.state) /\ ~IsNone(found.state)
    THEN [profile EXCEPT !.state = found.state]
    ELSE IF IsNone(profile.category) /\ ~IsNone(found.category)
    THEN [profile EXCEPT !.category = found.category]
    ELSE profile

\* the if/elif chain of extract_profile_info: only the first unset field is
\* attempted, with what its branch finds in the message
FillFrom(found, profile) ==
    IF IsNone(profile.age) THEN [profile EXCEPT !.age = found.age]
    ELSE IF IsNone(profile.income) THEN [profile EXCEPT !.income = found.income]
    ELSE IF IsNone(profile.state) THEN [profile EXCEPT !.state = found.state]
    ELSE IF IsNone(profile.category) THEN [profile EXCEPT !.category = found.category]
    ELSE profile

\* extract_profile_info
ExtractProfileInfo(message, profile) == FillFrom(Found(message), profile)

----------------------------------------------------------------------------
(* routes/chat.py: sanitize_response *)

StartsWithAt(s, i, prefix) ==
    /\ i >= 1
    /\ i + Len(prefix) - 1 <= Len(s)
    /\ SubSeq(s, i, i + Len(prefix) - 1) = prefix

\* the least of a set of positions, 0 when there is none
Least(hits) ==
    IF hits = {} THEN 0 ELSE CHOOSE j \in hits : \A h \in hits : j <= h

\* where a match of  open[^>]*>.*?close  (IGNORECASE | DOTALL) that starts at i
\* ends, 0 when there is no match at i; low is s.lower()
BlockMatchEnd(s, low, i, open, close) ==
    IF ~StartsWithAt(low, i, open) THEN 0
    ELSE LET gt == Least({j \in (i + Len(open))..Len(s) : Ch(s, j) = ">"})
         IN  IF gt = 0 THEN 0
             ELSE LET c == Least({j \in (gt + 1)..Len(s) : StartsWithAt(low, j, close)})
                  IN  IF c = 0 THEN 0 ELSE c + Len(close) - 1

\* re.sub(open[^>]*>.*?close, '', s) from position i on: the text up to the
\* leftmost match is kept, the match dropped, the scan resumed after it
RECURSIVE RemoveBlocksFrom(_, _, _, _, _)
RemoveBlocksFrom(s, low, i, open, close) ==
    LET m == Least({j \in i..Len(s) : BlockMatchEnd(s, low, j, open, close) # 0})
    IN  IF m = 0 THEN SubSeq(s, i, Len(s))
        ELSE SubSeq(s, i, m - 1)
             \o RemoveBlocksFrom(s, low, BlockMatchEnd(s, low, m, open, close) + 1, open, close)

RemoveBlocks(s, open, close) == RemoveBlocksFrom(s, StrLower(s), 1, open, close)

\* re.sub(r'\bword\b', '', s, flags=re.IGNORECASE) from position i on
RECURSIVE RemoveWordFrom(_, _, _, _)
RemoveWordFrom(s, low, i, word) ==
    LET m == Least({j \in i..Len(s) : /\ StartsWithAt(low, j, word)
                                      /\ WordBoundary(s, j)
                                      /\ WordBoundary(s, j + Len(word))})
    IN  IF m = 0 THEN SubSeq(s, i, Len(s))
        ELSE SubSeq(s, i, m - 1) \o RemoveWordFrom(s, low, m + Len(word), word)

RemoveWord(s, word) == RemoveWordFrom(s, StrLower(s), 1, word)

\* sanitize_response (text is always a str here)
SanitizeResponse(text) ==
    LET t1 == RemoveBlocks(text, "<script", "</script>")
        t2 == RemoveBlocks(t1, "<iframe", "</iframe>")
        t3 == RemoveWord(t2, "onclick")
        t4 == RemoveWord(t3, "onerror")
        t5 == RemoveWord(t4, "onload")
        t6 == RemoveWord(t5, "javascript:")
    IN  StrStrip(t6)

----------------------------------------------------------------------------
(* services/llm_service.py *)

\* ", ".join([f"**{s['name']}**" for s in eligible_schemes])
BoldNames(eligible_schemes) ==
    StrJoin([i \in 1..Len(eligible_schemes) |-> "**" \o eligible_schemes[i].name \o "**"], ", ")

\* LLMService._generate_with_template
GenerateWithTemplate(user_message, eligible_schemes) ==
    LET count == Len(eligible_schemes)
    IN  IF count = 0
        THEN "Based on your profile, I couldn't find any schemes you're currently eligible for. However, eligibility criteria can change, so I recommend checking back periodically or exploring options to meet the requirements for specific schemes."
        ELSE IF count = 1
        THEN "Great news! You're eligible for **" \o eligible_schemes[1].name
             \o "**. This scheme offers: " \o eligible_schemes[1].benefits
        ELSE IF count <= 3
        THEN "Excellent! You're eligible for " \o IntToStr(count) \o " schemes: "
             \o BoldNames(eligible_schemes)
             \o ". Each scheme has unique benefits tailored to your needs. Check out the details below!"
        ELSE "Wonderful! You're eligible for **" \o IntToStr(count)
             \o " government schemes**! This gives you multiple options to choose from based on your specific educational goals. Review the schemes below to see which ones align best with your needs."

\* what gemini_chat.invoke does in one call: it raises, or it returns a content
GeminiRaises == [raised |-> TRUE, content |-> ""]
GeminiReturns(content) == [raised |-> FALSE, content |-> content]

\* a plausible slip: the except branch answers with an apology instead of
\* falling back to the template
GenerateWithGeminiApologizing(gemini, user_message, eligible_schemes) ==
    IF gemini.raised
    THEN "I apologize, but I am having trouble generating a response right now."
    ELSE StrStrip(gemini.content)

\* LLMService._generate_with_gemini, given what the call to Gemini does
GenerateWithGemini(gemini, user_message, eligible_schemes) ==
    IF gemini.raised
    THEN GenerateWithTemplate(user_message, eligible_schemes)
    ELSE StrStrip(gemini.content)

\* LLMService.generate_response
GenerateResponse(service, gemini, user_message, eligible_schemes) ==
    IF service.available
    THEN GenerateWithGemini(gemini, user_message, eligible_schemes)
    ELSE GenerateWithTemplate(user_message, eligible_schemes)

----------------------------------------------------------------------------
(* get_eligible_schemes and sanitize_response, tabulated once over the     *)
(* profiles and reply texts that the requests above can produce; a lookup  *)
(* outside the table computes the function.                                *)

\* the values a profile field can take: from an override or from a message
FieldValues(field) ==
    ({o[field] : o \in Overrides} \cup {ExtractedOf[m][field] : m \in Messages}) \ {None}

CompleteProfiles ==
    {[age |-> a, income |-> i, state |-> s, category |-> c] :
        a \in FieldValues("age"), i \in FieldValues("income"),
        s \in FieldValues("state"), c \in FieldValues("category")}
    \cup ReplyProfiles

EligibleOf == [p \in CompleteProfiles |-> GetEligibleSchemes(ToDict(p))]

EligibleSchemes(profile) ==
    IF profile \in DOMAIN EligibleOf THEN EligibleOf[profile]
    ELSE GetEligibleSchemes(ToDict(profile))

ReplyTexts ==
    {GenerateWithTemplate("", EligibleOf[p]) : p \in CompleteProfiles}
        \cup {StrStrip(c) : c \in GeminiContents}

SanitizedOf == [t \in ReplyTexts |-> SanitizeResponse(t)]

Sanitized(text) ==
    IF text \in DOMAIN SanitizedOf THEN SanitizedOf[text] ELSE SanitizeResponse(text)

----------------------------------------------------------------------------
(* routes/chat.py: the session store and the chat handler *)

\* the session dict created on the first reference to an id
NewSession(t, token) ==
    [user_profile |-> UserProfile, conversation_history |-> << >>,
     last_accessed |-> t, session_token |-> token]

\* a plausible slip: the sweep compares with >= and deletes a session idle for
\* exactly the timeout
ExpiredAtTimeout(sess, t) ==
    {sid \in DOMAIN sess : t - sess[sid].last_accessed >= SessionTimeout}

\* the ids the sweep of get_or_create_session deletes at time t
Expired(sess, t) ==
    {sid \in DOMAIN sess : t - sess[sid].last_accessed > SessionTimeout}

\* a plausible slip: get_or_create_session without the sweep of lines 54-59
GetOrCreateSessionNoSweep(sess, session_id, t, token) ==
    IF session_id \notin DOMAIN sess
    THEN DictSet(sess, session_id, NewSession(t, token))
    ELSE [sess EXCEPT ![session_id].last_accessed = t]

\* a plausible slip: the session of the id is touched before the sweep runs, so
\* an expired session of the requesting client survives its own lookup
GetOrCreateSessionTouchFirst(sess, session_id, t, token) ==
    LET touched == IF session_id \in DOMAIN sess
                   THEN [sess EXCEPT ![session_id].last_accessed = t]
                   ELSE sess
        swept == DictDel(touched, Expired(touched, t))
    IN  IF session_id \notin DOMAIN swept
        THEN DictSet(swept, session_id, NewSession(t, token))
        ELSE swept

\* get_or_create_session for an id that passed validate_session_id: the
\* session map afterwards; token is the value uuid.uuid4() would return
GetOrCreateSession(sess, session_id, t, token) ==
    LET swept == DictDel(sess, Expired(sess, t))
    IN  IF session_id \notin DOMAIN swept
        THEN DictSet(swept, session_id, NewSession(t, token))
        ELSE [swept EXCEPT ![session_id].last_accessed = t]

\* a plausible slip: the explicit values replace the stored profile wholesale,
\* so a field the request omits is reset to None
ApplyOverridesWholesale(profile, user_profile) == user_profile

\* a plausible slip: an explicit value is stored only where nothing is stored
\* yet
ApplyOverridesOnlyUnset(profile, user_profile) ==
    [age |-> IF IsNone(profile.age) THEN user_profile.age ELSE profile.age,
     income |-> IF IsNone(profile.income) THEN user_profile.income ELSE profile.income,
     state |-> IF IsNone(profile.state) THEN user_profile.state ELSE profile.state,
     category |-> IF IsNone(profile.category) THEN user_profile.category
                  ELSE profile.category]

\* chat, lines 194-203: each explicit value that is not None overwrites
ApplyOverrides(profile, user_profile) ==
    [age |-> IF ~IsNone(user_profile.age) THEN user_profile.age ELSE profile.age,
     income |-> IF ~IsNone(user_profile.income) THEN user_profile.income ELSE profile.income,
     state |-> IF ~IsNone(user_profile.state) THEN user_profile.state ELSE profile.state,
     category |-> IF ~IsNone(user_profile.category) THEN user_profile.category
                  ELSE profile.category]

HistoryEntry(role, content) == [role |-> role, content |-> content]

\* a call the handler makes to a collaborator, with the profile it passes
Invocation(fn, profile) == [fn |-> fn, profile |-> profile]

\* raise HTTPException(status_code, detail)
HttpError(status_code, detail) ==
    [status |-> status_code, detail |-> detail,
     response |-> "", schemes |-> << >>, next_question |-> None]

\* return ChatResponse(...)
ChatResponse(response, schemes, next_question) ==
    [status |-> 200, detail |-> "",
     response |-> response, schemes |-> schemes, next_question |-> next_question]

\* a plausible slip: every session holds the same profile object, so the
\* profile a turn stores is seen by all of them
StoreTurnSharedProfile(sess1, session_id, profile, history) ==
    [sid \in DOMAIN sess1 |->
        IF sid = session_id
        THEN [sess1[sid] EXCEPT !.user_profile = profile, !.conversation_history = history]
        ELSE [sess1[sid] EXCEPT !.user_profile = profile]]

\* a plausible slip: the profile is updated on a copy that answers the turn but
\* is never written back to the session
StoreTurnHistoryOnly(sess1, session_id, profile, history) ==
    [sess1 EXCEPT ![session_id].conversation_history = history]

\* a plausible slip: the history is rebound to a new list that holds the
\* entries of this turn only
StoreTurnLastTurnOnly(sess1, session_id, profile, history) ==
    [sess1 EXCEPT ![session_id].user_profile = profile,
                  ![session_id].conversation_history =
                      SubSeq(history, Len(history) - 1, Len(history))]

\* what a turn leaves in the session dict: the profile (lines 194-206) and the
\* history with the entries appended (lines 209-212, 220-223, 247-250)
StoreTurn(sess1, session_id, profile, history) ==
    [sess1 EXCEPT ![session_id].user_profile = profile,
                  ![session_id].conversation_history = history]

\* a plausible slip: the handler returns the prompt without appending it to the
\* history
AskNextUnrecorded(sess1, session_id, profile, h1, question) ==
    [sessions |-> StoreTurn(sess1, session_id, profile, h1),
     response |-> ChatResponse(question, << >>, Some(question)),
     calls |-> << >>]

\* chat, lines 218-229: the profile is incomplete, the question is the reply;
\* neither get_eligible_schemes nor generate_response is called
AskNext(sess1, session_id, profile, h1, question) ==
    [sessions |-> StoreTurn(sess1, session_id, profile,
                            Append(h1, HistoryEntry("assistant", question))),
     response |-> ChatResponse(question, << >>, Some(question)),
     calls |-> << >>]

\* chat, lines 231-256: the reply and the schemes are returned, after the
\* calls of lines 232 and 235 with profile.to_dict()
ReplyWith(sess1, session_id, profile, h1, eligible_schemes, response_text) ==
    [sessions |-> StoreTurn(sess1, session_id, profile,
                            Append(h1, HistoryEntry("assistant", response_text))),
     response |-> ChatResponse(response_text, eligible_schemes, None),
     calls |-> <<Invocation("get_eligible_schemes", profile),
                 Invocation("generate_response", profile)>>]

\* chat, lines 234-244: the reply is generated for the eligible schemes and
\* sanitized
Recommend(sess1, service, session_id, message, gemini, profile, h1, eligible_schemes) ==
    ReplyWith(sess1, session_id, profile, h1, eligible_schemes,
              Sanitized(GenerateResponse(service, gemini, message, eligible_schemes)))

\* a plausible slip: get_eligible_schemes is called above the test of
\* next_question, and its result is dropped when a field is missing
AnswerEvaluatesFirst(sess1, service, session_id, message, gemini, profile, h1) ==
    IF ~IsNone(GetNextProfileQuestion(profile))
    THEN [sessions |-> StoreTurn(sess1, session_id, profile,
                           Append(h1, HistoryEntry("assistant",
                                                   Val(GetNextProfileQuestion(profile))))),
          response |-> ChatResponse(Val(GetNextProfileQuestion(profile)), << >>,
                                    GetNextProfileQuestion(profile)),
          calls |-> <<Invocation("get_eligible_schemes", profile)>>]
    ELSE Recommend(sess1, service, session_id, message, gemini, profile, h1,
                   EligibleSchemes(profile))

\* chat, lines 214-256, for the profile after overrides and extraction and the
\* history with the user's message
Answer(sess1, service, session_id, message, gemini, profile, h1) ==
    IF ~IsNone(GetNextProfileQuestion(profile))
    THEN AskNext(sess1, session_id, profile, h1, Val(GetNextProfileQuestion(profile)))
    ELSE Recommend(sess1, service, session_id, message, gemini, profile, h1,
                   EligibleSchemes(profile))

\* chat, lines 194-256, for the session map that get_or_create_session leaves
TurnOn(sess1, service, session_id, message, user_profile, gemini) ==
    Answer(sess1, service, session_id, message, gemini,
           ExtractProfileInfo(message,
                              ApplyOverrides(sess1[session_id].user_profile, user_profile)),
           Append(sess1[session_id].conversation_history, HistoryEntry("user", message)))

\* chat, lines 191-256, for an admitted request with a valid id: the session map
\* and the response
ChatAdmitted(sess, service, t, session_id, message, user_profile, token, gemini) ==
    TurnOn(GetOrCreateSession(sess, session_id, t, token), service, session_id, message,
           user_profile, gemini)

\* the result of the handler for an admitted request: the limiter with the
\* request recorded, the session map and the response of the turn
Admitted(cl, r) ==
    [chat_limiter |-> cl, sessions |-> r.sessions, response |-> r.response,
     calls |-> r.calls]

\* the result of the handler for a request it rejects
Rejected(cl, sess, status_code, detail) ==
    [chat_limiter |-> cl, sessions |-> sess, response |-> HttpError(status_code, detail),
     calls |-> << >>]

\* chat, lines 185-256, given what chat_limiter.is_allowed returned
AfterRateLimit(rl, sess, service, t, session_id, message, user_profile, token, gemini) ==
    IF ~rl.allowed
    THEN Rejected(rl.rl, sess, 429,
                  "Too many requests. Please wait before sending another message.")
    ELSE IF ~ValidSessionId(session_id)
    THEN Rejected(rl.rl, sess, 400, "Invalid session_id format. Must be a valid UUID.")
    ELSE Admitted(rl.rl, ChatAdmitted(sess, service, t, session_id, message, user_profile,
                                      token, gemini))

\* a plausible slip: the expiry sweep runs at the top of the handler, before
\* the id is validated
ChatHandlerSweepFirst(cl, sess, service, t, session_id, message, user_profile, token, gemini) ==
    AfterRateLimit(IsAllowed(cl, session_id, t), DictDel(sess, Expired(sess, t)),
                   service, t, session_id, message, user_profile, token, gemini)

\* a plausible slip: the session is looked up before the limiter is asked, so
\* a rejected request sweeps, creates or touches as well
ChatHandlerLookupFirst(cl, sess, service, t, session_id, message, user_profile, token, gemini) ==
    AfterRateLimit(IsAllowed(cl, session_id, t),
                   IF ValidSessionId(session_id)
                   THEN GetOrCreateSession(sess, session_id, t, token) ELSE sess,
                   service, t, session_id, message, user_profile, token, gemini)

\* chat: the whole handler, from the state before the request to the state and
\* the response after it
ChatHandler(cl, sess, service, t, session_id, message, user_profile, token, gemini) ==
    AfterRateLimit(IsAllowed(cl, session_id, t), sess,
                   service, t, session_id, message, user_profile, token, gemini)

----------------------------------------------------------------------------
(* Initial state of the process: module-level objects as constructed *)

NoOp == [op |-> "none"]

\* the request handlers that may be in flight at once
Handlers == {"h1", "h2"}

\* a handler that is not serving a request
IdleTask == [pc |-> "idle"]

\* no request is in flight
NoTasks == [h \in Handlers |-> IdleTask]

\* GEMINI_AVAILABLE at import time: the key and the libraries are there or not
LlmAvailability == {TRUE, FALSE}

InitGlobals ==
    /\ now = 0
    /\ sms_limiter = SmsLimiterInit
    /\ chat_limiter = ChatLimiterInit
    /\ eligibility_limiter = EligibilityLimiterInit
    /\ sessions = EmptyDict
    /\ scheme_catalog = SCHEMES
    /\ sms_service = [available |-> FALSE]
    /\ last = NoOp

----------------------------------------------------------------------------
(* The RateLimiter class on its own: one instance, constructed with any    *)
(* max_requests up to MaxRequests and the window of the source, called     *)
(* with arbitrary keys at arbitrary times.                                 *)

\* keys handed to is_allowed
Keys == {"k1", "k2"}

\* window_seconds of the constructions in the source (and the default)
WindowSeconds == {60}

\* seconds by which the clock advances between two limiter calls
LimiterTickSteps == {30}

InitRL ==
    /\ InitGlobals
    /\ llm_service = [available |-> FALSE]
    /\ limiter \in {RateLimiter(n, w) : n \in 1..MaxRequests, w \in WindowSeconds}
    /\ admitted = [k \in Keys |-> <<>>]
    /\ reference = limiter
    /\ tasks = NoTasks

\* one call of limiter.is_allowed(key)
RLIsAllowed(key) ==
    LET r == IsAllowed(limiter, key, now)
    IN  /\ limiter' = r.rl
        /\ admitted' = IF r.allowed
                       THEN [admitted EXCEPT ![key] = Append(@, now)]
                       ELSE admitted
        /\ reference' = IsAllowed(reference, key, now).rl
        /\ last' = [op |-> "is_allowed", key |-> key, time |-> now,
                    allowed |-> r.allowed, remaining |-> r.remaining]
        /\ UNCHANGED <<tasks, sms_service, scheme_catalog, now, sms_limiter, chat_limiter,
                       eligibility_limiter, sessions, llm_service>>

\* one call of limiter.cleanup()
RLCleanup ==
    /\ limiter' = Cleanup(limiter, now)
    /\ last' = [op |-> "cleanup", time |-> now]
    /\ UNCHANGED <<tasks, reference, sms_service, scheme_catalog, now, admitted, sms_limiter, chat_limiter,
                   eligibility_limiter, sessions, llm_service>>

\* time passes
RLTick ==
    /\ \E d \in LimiterTickSteps :
          /\ now + d <= MaxTicks * d
          /\ now' = now + d
    /\ UNCHANGED <<tasks, reference, sms_service, scheme_catalog, limiter, admitted, sms_limiter, chat_limiter,
                   eligibility_limiter, sessions, llm_service, last>>

NextRL ==
    \/ \E key \in Keys : RLIsAllowed(key)
    \/ RLCleanup
    \/ RLTick

SpecRL == InitRL /\ [][NextRL]_vars

----------------------------------------------------------------------------
(* The chat endpoint: requests arrive one at a time (the handler is an     *)
(* async function that never awaits), the clock advances between them.     *)

\* what the call to Gemini does in a turn; no call is made when the service is
\* not available
GeminiOutcomes(service) ==
    IF service.available
    THEN {GeminiRaises} \cup {GeminiReturns(c) : c \in GeminiContents}
    ELSE {GeminiRaises}

\* seconds by which the clock advances between two chat requests: a session
\* is idle for exactly SESSION_TIMEOUT_MINUTES after one step, for longer
\* after two
ChatTickSteps == {SessionTimeout}

InitChat ==
    /\ InitGlobals
    /\ llm_service \in {[available |-> a] : a \in LlmAvailability}
    /\ limiter = RateLimiter(1, 60)
    /\ admitted = [k \in Keys |-> <<>>]
    /\ reference = limiter
    /\ tasks = NoTasks

\* POST /chat
Chat(session_id, message, user_profile, token, gemini) ==
    \E r \in {ChatHandler(chat_limiter, sessions, llm_service, now, session_id, message,
                           user_profile, token, gemini)} :
        /\ chat_limiter' = r.chat_limiter
        /\ sessions' = r.sessions
        /\ last' = [op |-> "chat", time |-> now, session_id |-> session_id,
                    message |-> message, user_profile |-> user_profile,
                    status |-> r.response.status, detail |-> r.response.detail,
                    response |-> r.response.response, schemes |-> r.response.schemes,
                    next_question |-> r.response.next_question,
                    calls |-> r.calls]
        \* the catalog is read by get_eligible_schemes, which leaves it as it is
        /\ UNCHANGED <<tasks, reference, sms_service, scheme_catalog, now, limiter, admitted, sms_limiter,
                       eligibility_limiter, llm_service>>

\* time passes
ChatTick ==
    /\ \E d \in ChatTickSteps :
          /\ now + d <= MaxChatTicks * d
          /\ now' = now + d
    /\ UNCHANGED <<tasks, reference, sms_service, scheme_catalog, limiter, admitted, sms_limiter, chat_limiter,
                   eligibility_limiter, sessions, llm_service, last>>

\* the session stored for the id is there and would survive a sweep now
Live(session_id) ==
    IF session_id \in DOMAIN sessions
    THEN session_id \notin Expired(sessions, now)
    ELSE FALSE

\* turns the live session of the id has handled
Turns(session_id) ==
    IF Live(session_id) THEN Len(sessions[session_id].conversation_history) \div 2 ELSE 0

\* one turn on a valid id, at most max turns per session
ChatTurn(session_id, message, user_profile, max) ==
    /\ Turns(session_id) < max
    /\ \E token \in Tokens, gemini \in GeminiOutcomes(llm_service) :
          Chat(session_id, message, user_profile, token, gemini)

\* one request with the malformed id, at most MaxMalformed per window
ChatMalformed ==
    /\ Len(Pruned(chat_limiter, SidMalformed, now)) < MaxMalformed
    /\ Chat(SidMalformed, "Hello", UserProfile, "token-1", GeminiRaises)

\* the (message, user_profile) pairs of the requests of one client
Requests ==
    {<<"Hello", UserProfile>>,
     <<"I am 20 years old", UserProfile>>,
     <<"I am 20 years old", [UserProfile EXCEPT !.age = Some(20)]>>,
     <<"Maharashtra", UserProfile>>,
     <<"Hello", [UserProfile EXCEPT !.age = Some(50), !.category = Some("OBC")]>>,
     <<"Hello", FullProfile>>}

\* one client sending any of these requests in any order, and malformed requests
NextChat ==
    \/ \E rq \in Requests : ChatTurn(SidA, rq[1], rq[2], MaxTurns)
    \/ ChatMalformed
    \/ ChatTick

Spec == InitChat /\ [][NextChat]_vars

----------------------------------------------------------------------------
(* Two clients, each with its own session id *)

\* the (message, user_profile) pairs the two clients send
PairRequests ==
    {<<"Hello", UserProfile>>,
     <<"I am 20 years old", [UserProfile EXCEPT !.category = Some("OBC")]>>}

NextPair ==
    \/ \E session_id \in {SidA, SidB}, rq \in PairRequests :
            ChatTurn(session_id, rq[1], rq[2], MaxTurns)
    \/ ChatTick

SpecPair == InitChat /\ [][NextPair]_vars

----------------------------------------------------------------------------
(* One client that answers what it is asked and sends no explicit profile  *)
(* (scenario D): each message is a greeting or the answer to the prompt of *)
(* the previous response; the first message may state the age.             *)

AnswerTo(prompt) ==
    IF prompt = AgePrompt THEN "I am 20 years old"
    ELSE IF prompt = IncomePrompt THEN "2 lakhs per year"
    ELSE IF prompt = StatePrompt THEN "Maharashtra"
    ELSE "General"

ClientMessages ==
    {"Hello"} \cup
        (IF last.op = "chat"
         THEN IF IsNone(last.next_question) THEN {} ELSE {AnswerTo(Val(last.next_question))}
         ELSE {"I am 20 years old"})

NextDialogue ==
    \/ \E message \in ClientMessages : ChatTurn(SidA, message, UserProfile, MaxDialogueTurns)
    \/ ChatTick

SpecDialogue == InitChat /\ [][NextDialogue]_vars

----------------------------------------------------------------------------
(* The eligibility evaluator on its own: a fully populated profile is      *)
(* drawn, then is_eligible and get_eligible_schemes are called with it on  *)
(* the module-level catalog, any number of times.  The profiles take every *)
(* age and income at and next to a bound of a catalog record.              *)

\* the values of one field over the catalog records
SchemeValues(field) == {SCHEMES[i][field] : i \in 1..Len(SCHEMES)}

\* the ages at and just outside the age bounds of the records, and the age of
\* the scenario profile
BoundaryAges ==
    {a - 1 : a \in SchemeValues("age_min")} \cup SchemeValues("age_min")
    \cup SchemeValues("age_max") \cup {a + 1 : a \in SchemeValues("age_max")}
    \cup {Val(FullProfile.age)}

\* the incomes at and just above the ceilings of the records, and no income
BoundaryIncomes ==
    {0} \cup SchemeValues("income_max") \cup {m + 1 : m \in SchemeValues("income_max")}

\* the profiles handed to the evaluator: every boundary age with the income
\* of the scenario profile and with one above every ceiling, every boundary
\* income with the scenario age; the states and categories are those the
\* records name and one they do not
EvalProfiles ==
    {[age |-> a, income |-> m, state |-> st, category |-> c] :
        a \in BoundaryAges, m \in {Val(FullProfile.income), 800001},
        st \in (SchemeValues("state") \ {"ALL"}) \cup {"Kerala"},
        c \in (SchemeValues("category") \ {"ALL"}) \cup {"General"}}
    \cup
    {[age |-> Val(FullProfile.age), income |-> m, state |-> st, category |-> c] :
        m \in BoundaryIncomes,
        st \in (SchemeValues("state") \ {"ALL"}) \cup {"Kerala"},
        c \in (SchemeValues("category") \ {"ALL"}) \cup {"General"}}

\* the profiles a later caller brings
ScenarioProfiles ==
    {ToDict(FullProfile), [ToDict(FullProfile) EXCEPT !.category = "OBC"]}

InitSchemes ==
    /\ now = 0
    /\ sms_limiter = SmsLimiterInit
    /\ chat_limiter = ChatLimiterInit
    /\ eligibility_limiter = EligibilityLimiterInit
    /\ sessions = EmptyDict
    /\ scheme_catalog = SCHEMES
    /\ sms_service = [available |-> FALSE]
    /\ llm_service = [available |-> FALSE]
    /\ limiter = RateLimiter(1, 60)
    /\ admitted = [k \in Keys |-> <<>>]
    /\ reference = limiter
    /\ tasks = NoTasks
    /\ last \in {[op |-> "profile", user_profile |-> p] : p \in EvalProfiles}

\* is_eligible(user_profile, SCHEMES[i]) for the profile at hand
IsEligibleCall(i) ==
    \E r \in {IsEligible(last.user_profile, scheme_catalog[i])} :
        /\ last' = [op |-> "is_eligible", user_profile |-> last.user_profile,
                    scheme |-> i, eligible |-> r[1], reason |-> r[2]]
        /\ UNCHANGED <<tasks, reference, sms_service, scheme_catalog, now, limiter, admitted, sms_limiter, chat_limiter,
                       eligibility_limiter, sessions, llm_service>>

\* get_eligible_schemes(user_profile) for the profile at hand
GetEligibleSchemesCall ==
    /\ last' = [op |-> "get_eligible_schemes", user_profile |-> last.user_profile,
                schemes |-> EligibleFrom(last.user_profile, scheme_catalog, 1)]
    /\ scheme_catalog' = CatalogAfter(last.user_profile, scheme_catalog)
    /\ UNCHANGED <<tasks, reference, sms_service, now, limiter, admitted, sms_limiter, chat_limiter,
                   eligibility_limiter, sessions, llm_service>>

\* another caller arrives with its profile
NextCaller(user_profile) ==
    /\ last.op # "profile"
    /\ last' = [op |-> "profile", user_profile |-> user_profile]
    /\ UNCHANGED <<tasks, reference, sms_service, scheme_catalog, now, limiter, admitted, sms_limiter, chat_limiter,
                   eligibility_limiter, sessions, llm_service>>

NextSchemes ==
    \/ \E i \in 1..Len(scheme_catalog) : IsEligibleCall(i)
    \/ GetEligibleSchemesCall
    \/ \E user_profile \in ScenarioProfiles : NextCaller(user_profile)

SpecSchemes == InitSchemes /\ [][NextSchemes]_vars

----------------------------------------------------------------------------
(* extract_profile_info on its own: a profile is drawn, each field unset   *)
(* or set, and the function is called with any of the messages, again and  *)
(* again on the profile it returned.                                       *)

\* the messages handed to the function: those of the chat specifications, one
\* that names all four fields and one that names a state and a category only
ExtractMessages ==
    Messages \cup {"I am 20, income 2 lakhs, Maharashtra, General", "Maharashtra General"}

\* the profiles the first call starts from: values no message above yields
ExtractProfiles ==
    {[age |-> a, income |-> m, state |-> st, category |-> c] :
        a \in {None, Some(50)}, m \in {None, Some(100000)},
        st \in {None, Some("Kerala")}, c \in {None, Some("OBC")}}

InitExtract ==
    /\ now = 0
    /\ sms_limiter = SmsLimiterInit
    /\ chat_limiter = ChatLimiterInit
    /\ eligibility_limiter = EligibilityLimiterInit
    /\ sessions = EmptyDict
    /\ scheme_catalog = SCHEMES
    /\ sms_service = [available |-> FALSE]
    /\ llm_service = [available |-> FALSE]
    /\ limiter = RateLimiter(1, 60)
    /\ admitted = [k \in Keys |-> <<>>]
    /\ reference = limiter
    /\ tasks = NoTasks
    /\ last \in {[op |-> "profile", profile |-> p, result |-> p] : p \in ExtractProfiles}

\* extract_profile_info(message, profile) on the profile at hand
ExtractProfileInfoCall(message) ==
    /\ last' = [op |-> "extract_profile_info", message |-> message,
                profile |-> last.result,
                result |-> ExtractProfileInfo(message, last.result)]
    /\ UNCHANGED <<tasks, reference, sms_service, scheme_catalog, now, limiter, admitted, sms_limiter, chat_limiter,
                   eligibility_limiter, sessions, llm_service>>

NextExtract == \E message \in ExtractMessages : ExtractProfileInfoCall(message)

SpecExtract == InitExtract /\ [][NextExtract]_vars

----------------------------------------------------------------------------
(* routes/sms.py and services/sms_service.py: POST /sms *)

\* SMSRequest.validate_phone: re.match(r'^[6-9]\d{9}$', v); the $ also matches
\* in front of a newline that ends the string
ValidPhone(phone) ==
    /\ Len(phone) \in {10, 11}
    /\ Len(phone) = 11 => Ch(phone, 11) = "\n"
    /\ Ch(phone, 1) \in {"6", "7", "8", "9"}
    /\ \A i \in 2..10 : IsDigit(Ch(phone, i))

\* next((s for s in SCHEMES if s['id'] == request.scheme_id), None)
FindScheme(catalog, scheme_id) ==
    IF \E i \in 1..Len(catalog) : catalog[i].id = scheme_id
    THEN Some(catalog[Least({i \in 1..Len(catalog) : catalog[i].id = scheme_id})])
    ELSE None

\* SMSService.send_scheme_details: the dict returned; twilio tells whether
\* messages.create raises when the service is available
SendSchemeDetails(service, twilio, phone, scheme) ==
    IF service.available
    THEN IF twilio = "raises"
         THEN [status |-> "failed", message |-> "Failed to send SMS. Please try again later."]
         ELSE [status |-> "sent", message |-> "SMS sent successfully"]
    ELSE [status |-> "sent", message |-> "SMS sent successfully (mock mode)"]

\* the answer of the sms route: an HTTPException (or the 422 of the request
\* validation) or the SMSResponse
SmsAnswer(status_code, detail, result) ==
    [status_code |-> status_code, detail |-> detail,
     status |-> result.status, message |-> result.message]

\* send_sms, lines 39-51, after the limiter admitted the request
SmsAdmitted(service, twilio, phone, scheme_id, scheme) ==
    IF IsNone(scheme)
    THEN SmsAnswer(404, "Scheme " \o scheme_id \o " not found", [status |-> "", message |-> ""])
    ELSE SmsAnswer(200, "", SendSchemeDetails(service, twilio, phone, Val(scheme)))

\* send_sms, lines 33-51, with the result r of sms_limiter.is_allowed
SmsAfterRateLimit(r, service, twilio, catalog, phone, scheme_id) ==
    [sms_limiter |-> r.rl,
     response |-> IF ~r.allowed
                  THEN SmsAnswer(429, "Too many SMS requests. Please try again later.",
                                 [status |-> "", message |-> ""])
                  ELSE SmsAdmitted(service, twilio, phone, scheme_id,
                                   FindScheme(catalog, scheme_id))]

\* POST /sms: the request validation, then send_sms
SendSms(rl, service, catalog, t, phone, scheme_id, twilio) ==
    IF ~ValidPhone(phone)
    THEN [sms_limiter |-> rl,
          response |-> SmsAnswer(422, "Invalid Indian phone number. Must be 10 digits starting with 6-9",
                                 [status |-> "", message |-> ""])]
    ELSE SmsAfterRateLimit(IsAllowed(rl, phone, t), service, twilio, catalog, phone, scheme_id)

\* how many times the clock may advance in the sms specification
MaxSmsTicks == 2

\* seconds by which the clock advances between two sms requests
SmsTickSteps == {30}

\* the phone numbers of the sms tests: a valid one and one that starts with 1
Phones == {"9876543210", "1234567890"}

\* the scheme ids of the requests: those of the catalog and an unknown one
SchemeIds == SchemeValues("id") \cup {"invalid_scheme"}

\* what messages.create does in a request; it is not called in mock mode
TwilioOutcomes(service) == IF service.available THEN {"ok", "raises"} ELSE {"ok"}

InitSms ==
    /\ now = 0
    /\ sms_limiter = SmsLimiterInit
    /\ chat_limiter = ChatLimiterInit
    /\ eligibility_limiter = EligibilityLimiterInit
    /\ sessions = EmptyDict
    /\ scheme_catalog = SCHEMES
    /\ sms_service \in {[available |-> a] : a \in BOOLEAN}
    /\ llm_service = [available |-> FALSE]
    /\ limiter = RateLimiter(1, 60)
    /\ admitted = [k \in Keys |-> <<>>]
    /\ reference = limiter
    /\ tasks = NoTasks
    /\ last = NoOp

\* one request POST /sms
Sms(phone, scheme_id, twilio) ==
    \E r \in {SendSms(sms_limiter, sms_service, scheme_catalog, now, phone, scheme_id, twilio)} :
        /\ sms_limiter' = r.sms_limiter
        /\ last' = [op |-> "sms", time |-> now, phone |-> phone, scheme_id |-> scheme_id,
                    twilio |-> twilio, status_code |-> r.response.status_code,
                    detail |-> r.response.detail, status |-> r.response.status,
                    message |-> r.response.message]
        /\ UNCHANGED <<tasks, reference, sms_service, scheme_catalog, now, limiter, admitted, chat_limiter,
                       eligibility_limiter, sessions, llm_service>>

\* time passes
SmsTick ==
    /\ \E d \in SmsTickSteps :
          /\ now + d <= MaxSmsTicks * d
          /\ now' = now + d
    /\ UNCHANGED <<tasks, reference, sms_service, scheme_catalog, limiter, admitted, sms_limiter,
                   chat_limiter, eligibility_limiter, sessions, llm_service, last>>

NextSms ==
    \/ \E phone \in Phones, scheme_id \in SchemeIds, twilio \in TwilioOutcomes(sms_service) :
            Sms(phone, scheme_id, twilio)
    \/ SmsTick

SpecSms == InitSms /\ [][NextSms]_vars

----------------------------------------------------------------------------
(* One client whose turns carry a complete explicit profile, with the text *)
(* generation available or not, failing or not: the profiles have no, one, *)
(* two, three and four eligible schemes.                                   *)

NextReply ==
    \/ \E user_profile \in ReplyProfiles : ChatTurn(SidA, "Hello", user_profile, MaxTurns)
    \/ ChatTick

SpecReply == InitChat /\ [][NextReply]_vars

----------------------------------------------------------------------------
(* routes/eligibility.py: POST /eligibility.  The handler sees the three   *)
(* module-level limiters of utils/rate_limit.py; sessions is a name of     *)
(* routes/chat.py that it does not import.                                 *)

\* EligibilityRequest: age has ge=1, le=120 and income ge=0
ValidEligibilityRequest(request) ==
    /\ 1 <= request.age /\ request.age <= 120
    /\ request.income >= 0

\* the answer of the route: an HTTPException (or the 422 of the request
\* validation) or the EligibilityResponse
EligibilityAnswer(status_code, detail, eligible_schemes) ==
    [status |-> status_code, detail |-> detail,
     eligible_schemes |-> eligible_schemes, count |-> Len(eligible_schemes)]

\* a plausible slip: the wrong limiter is imported, the checks are counted in
\* chat_limiter
CheckEligibilityOnChatLimiter(limiters, catalog, t, client_ip, request) ==
    IF ~ValidEligibilityRequest(request)
    THEN [limiters |-> limiters, called |-> FALSE,
          response |-> EligibilityAnswer(422, "Input should be in range", << >>)]
    ELSE IF ~IsAllowed(limiters.chat_limiter, client_ip, t).allowed
    THEN [limiters |-> [limiters EXCEPT !.chat_limiter =
                            IsAllowed(limiters.chat_limiter, client_ip, t).rl],
          called |-> FALSE,
          response |-> EligibilityAnswer(429, "Too many requests. Please try again later.",
                                         << >>)]
    ELSE [limiters |-> [limiters EXCEPT !.chat_limiter =
                            IsAllowed(limiters.chat_limiter, client_ip, t).rl],
          called |-> TRUE,
          response |-> EligibilityAnswer(200, "", EligibleFrom(request, catalog, 1))]

\* POST /eligibility: the request validation, then check_eligibility; called
\* tells whether get_eligible_schemes ran
CheckEligibility(limiters, catalog, t, client_ip, request) ==
    IF ~ValidEligibilityRequest(request)
    THEN [limiters |-> limiters, called |-> FALSE,
          response |-> EligibilityAnswer(422, "Input should be in range", << >>)]
    ELSE IF ~IsAllowed(limiters.eligibility_limiter, client_ip, t).allowed
    THEN [limiters |-> [limiters EXCEPT !.eligibility_limiter =
                            IsAllowed(limiters.eligibility_limiter, client_ip, t).rl],
          called |-> FALSE,
          response |-> EligibilityAnswer(429, "Too many requests. Please try again later.",
                                         << >>)]
    ELSE [limiters |-> [limiters EXCEPT !.eligibility_limiter =
                            IsAllowed(limiters.eligibility_limiter, client_ip, t).rl],
          called |-> TRUE,
          response |-> EligibilityAnswer(200, "", EligibleFrom(request, catalog, 1))]

\* how many checks one client may send within a window in the specification
MaxEligibilityChecks == 1

\* http_request.client.host of the test client, and the key of a request
\* without client
ClientIps == {"testclient", "unknown"}

\* the bodies of the requests: the profile of scenario A, one of another
\* category and age, and one the validation rejects
EligibilityRequests ==
    {[age |-> 20, income |-> 200000, state |-> "Maharashtra", category |-> "General"],
     [age |-> 18, income |-> 150000, state |-> "Karnataka", category |-> "OBC"],
     [age |-> 0, income |-> 200000, state |-> "Maharashtra", category |-> "General"]}

\* one request POST /eligibility
Eligibility(client_ip, request) ==
    \E r \in {CheckEligibility([sms_limiter |-> sms_limiter, chat_limiter |-> chat_limiter,
                                eligibility_limiter |-> eligibility_limiter],
                               scheme_catalog, now, client_ip, request)} :
        /\ sms_limiter' = r.limiters.sms_limiter
        /\ chat_limiter' = r.limiters.chat_limiter
        /\ eligibility_limiter' = r.limiters.eligibility_limiter
        /\ scheme_catalog' = IF r.called THEN CatalogAfter(request, scheme_catalog)
                             ELSE scheme_catalog
        /\ last' = [op |-> "eligibility", time |-> now, client_ip |-> client_ip,
                    request |-> request, status |-> r.response.status,
                    detail |-> r.response.detail,
                    eligible_schemes |-> r.response.eligible_schemes,
                    count |-> r.response.count]
        /\ UNCHANGED <<tasks, reference, sms_service, now, limiter, admitted, sessions, llm_service>>

\* one check of a client, at most MaxEligibilityChecks within a window
EligibilityCheck(client_ip, request) ==
    /\ Len(Pruned(eligibility_limiter, client_ip, now)) < MaxEligibilityChecks
    /\ Eligibility(client_ip, request)

\* chat turns of one client and direct eligibility checks, in any order
NextEligibility ==
    \/ ChatTurn(SidA, "I am 20 years old", [UserProfile EXCEPT !.category = Some("OBC")],
                MaxTurns)
    \/ \E client_ip \in ClientIps, request \in EligibilityRequests :
            EligibilityCheck(client_ip, request)
    \/ ChatTick

SpecEligibility == InitChat /\ [][NextEligibility]_vars

----------------------------------------------------------------------------
(* utils/rate_limit.py:77-80, the three module-level instances side by     *)
(* side: is_allowed is called on any of them with any key.                  *)

\* the names bound at module level
LimiterNames == {"sms_limiter", "chat_limiter", "eligibility_limiter"}

\* the instances by name
Limiters ==
    [sms_limiter |-> sms_limiter, chat_limiter |-> chat_limiter,
     eligibility_limiter |-> eligibility_limiter]

\* a plausible slip: requests is a class attribute, one dict shared by every
\* instance
InstancesAfterSharedDict(limiters, name, rl) ==
    [n \in DOMAIN limiters |-> [limiters[n] EXCEPT !.requests = rl.requests]]

\* self.requests is created per instance in __init__ (line 25): the call
\* rebinds entries of the dict of the instance it is called on
InstancesAfter(limiters, name, rl) ==
    [limiters EXCEPT ![name] = rl]

\* how many requests of one key one instance is given within a window
MaxLimiterCalls == 2

\* one call of is_allowed(key) on the instance called name
LimiterIsAllowed(name, key) ==
    /\ Len(Pruned(Limiters[name], key, now)) < MaxLimiterCalls
    /\ \E r \in {IsAllowed(Limiters[name], key, now)} :
          /\ \E after \in {InstancesAfter(Limiters, name, r.rl)} :
                /\ sms_limiter' = after.sms_limiter
                /\ chat_limiter' = after.chat_limiter
                /\ eligibility_limiter' = after.eligibility_limiter
          /\ last' = [op |-> "is_allowed", limiter |-> name, key |-> key,
                      time |-> now, allowed |-> r.allowed, remaining |-> r.remaining]
    /\ UNCHANGED <<tasks, reference, sms_service, scheme_catalog, now, limiter, admitted,
                   sessions, llm_service>>

NextLimiters ==
    \E name \in LimiterNames, key \in Keys : LimiterIsAllowed(name, key)

\* the state after the import of utils/rate_limit.py
InitLimiters ==
    /\ InitGlobals
    /\ llm_service = [available |-> FALSE]
    /\ limiter = RateLimiter(1, 60)
    /\ admitted = [k \in Keys |-> <<>>]
    /\ reference = limiter
    /\ tasks = NoTasks

SpecLimiters == InitLimiters /\ [][NextLimiters]_vars

----------------------------------------------------------------------------
(* Requests in flight.  Every route handler is a coroutine (async def,     *)
(* chat.py:175, eligibility.py:14, sms.py:23) run by the one event loop of *)
(* uvicorn.run (main.py:82); the loop switches to another coroutine only   *)
(* where the running one awaits.                                           *)

\* a plausible slip: the handlers are plain functions, which the framework runs
\* in a thread pool, so that a handler can be preempted at any statement
SuspendedAnywhere(pc) == TRUE

\* whether a handler standing at pc has yielded to the event loop: neither the
\* handlers nor the functions they call contain an await
Suspended(pc) == FALSE

\* handler h may take its next step: no other handler holds the loop
Scheduled(h) ==
    \A o \in Handlers \ {h} : tasks[o].pc = "idle" \/ Suspended(tasks[o].pc)

----------------------------------------------------------------------------
(* RateLimiter.is_allowed statement by statement, called by two handlers   *)
(* on the same key of one instance.                                        *)

\* the key the handlers compete for
SharedKey == "k1"

\* lines 37-38: now and window_start are read
IsAllowedBegin(h, key) ==
    /\ tasks[h].pc = "idle"
    /\ Scheduled(h)
    /\ tasks' = [tasks EXCEPT ![h] = [pc |-> "line40", key |-> key, t |-> now,
                                       before |-> limiter, kept |-> << >>,
                                       remaining |-> 0]]
    /\ UNCHANGED <<reference, sms_service, scheme_catalog, now, limiter, admitted,
                   sms_limiter, chat_limiter, eligibility_limiter, sessions,
                   llm_service, last>>

\* lines 40-41: the key gets an empty list when it has none
IsAllowedEnsure(h) ==
    /\ tasks[h].pc = "line40"
    /\ Scheduled(h)
    /\ limiter' = IF tasks[h].key \in DOMAIN limiter.requests THEN limiter
                  ELSE [limiter EXCEPT !.requests = DictSet(@, tasks[h].key, << >>)]
    /\ tasks' = [tasks EXCEPT ![h].pc = "line44"]
    /\ UNCHANGED <<reference, sms_service, scheme_catalog, now, admitted, sms_limiter,
                   chat_limiter, eligibility_limiter, sessions, llm_service, last>>

\* lines 44-47: the list comprehension is evaluated ...
IsAllowedFilter(h) ==
    /\ tasks[h].pc = "line44"
    /\ Scheduled(h)
    /\ tasks' = [tasks EXCEPT ![h].pc = "line44store",
                              ![h].kept = FilterGT(limiter.requests[tasks[h].key],
                                                   tasks[h].t - limiter.window_seconds)]
    /\ UNCHANGED <<reference, sms_service, scheme_catalog, now, limiter, admitted,
                   sms_limiter, chat_limiter, eligibility_limiter, sessions,
                   llm_service, last>>

\* ... and its value is bound to self.requests[key]
IsAllowedStore(h) ==
    /\ tasks[h].pc = "line44store"
    /\ Scheduled(h)
    /\ limiter' = [limiter EXCEPT !.requests = DictSet(@, tasks[h].key, tasks[h].kept)]
    /\ tasks' = [tasks EXCEPT ![h].pc = "line50"]
    /\ UNCHANGED <<reference, sms_service, scheme_catalog, now, admitted, sms_limiter,
                   chat_limiter, eligibility_limiter, sessions, llm_service, last>>

\* line 50: remaining is computed from the list stored now
IsAllowedCount(h) ==
    /\ tasks[h].pc = "line50"
    /\ Scheduled(h)
    /\ tasks' = [tasks EXCEPT ![h].pc = "line52",
                              ![h].remaining = limiter.max_requests
                                                 - Len(limiter.requests[tasks[h].key])]
    /\ UNCHANGED <<reference, sms_service, scheme_catalog, now, limiter, admitted,
                   sms_limiter, chat_limiter, eligibility_limiter, sessions,
                   llm_service, last>>

\* lines 52-56: the request is appended to the list stored now and admitted, or
\* rejected; the call returns
IsAllowedReturn(h) ==
    /\ tasks[h].pc = "line52"
    /\ Scheduled(h)
    /\ limiter' = IF tasks[h].remaining > 0
                  THEN [limiter EXCEPT !.requests =
                            DictSet(@, tasks[h].key,
                                    Append(limiter.requests[tasks[h].key], tasks[h].t))]
                  ELSE limiter
    /\ admitted' = IF tasks[h].remaining > 0
                   THEN [admitted EXCEPT ![tasks[h].key] = Append(@, tasks[h].t)]
                   ELSE admitted
    /\ last' = [op |-> "is_allowed", key |-> tasks[h].key, time |-> tasks[h].t,
                allowed |-> tasks[h].remaining > 0,
                remaining |-> IF tasks[h].remaining > 0 THEN tasks[h].remaining ELSE 0,
                handler |-> h, before |-> tasks[h].before]
    /\ tasks' = [tasks EXCEPT ![h] = IdleTask]
    /\ UNCHANGED <<reference, sms_service, scheme_catalog, now, sms_limiter,
                   chat_limiter, eligibility_limiter, sessions, llm_service>>

NextRace ==
    \/ \E h \in Handlers : IsAllowedBegin(h, SharedKey)
    \/ \E h \in Handlers : IsAllowedEnsure(h)
    \/ \E h \in Handlers : IsAllowedFilter(h)
    \/ \E h \in Handlers : IsAllowedStore(h)
    \/ \E h \in Handlers : IsAllowedCount(h)
    \/ \E h \in Handlers : IsAllowedReturn(h)
    \/ RLTick

SpecRace == InitRL /\ [][NextRace]_vars

----------------------------------------------------------------------------
(* routes/chat.py: the chat handler statement by statement, for two        *)
(* requests in flight.  The local name session of a handler refers to a    *)
(* dict object: attached tells whether that object is the one the session  *)
(* map holds for the id, orphan is the object once the map has dropped it. *)

\* the dict the local name session of handler h refers to
SessionOf(h) ==
    IF tasks[h].attached THEN sessions[tasks[h].session_id] ELSE tasks[h].orphan

\* the tasks after the entries ids of the session map were deleted or rebound:
\* a handler that refers to one of them keeps the object, the map does not
Detached(ts, ids) ==
    [o \in Handlers |->
        IF ts[o].pc = "idle" THEN ts[o]
        ELSE IF ts[o].attached /\ ts[o].session_id \in ids
        THEN [ts[o] EXCEPT !.attached = FALSE, !.orphan = sessions[ts[o].session_id]]
        ELSE ts[o]]

\* what the steps of a turn leave alone
TurnFrame ==
    UNCHANGED <<reference, sms_service, scheme_catalog, now, limiter, admitted,
                sms_limiter, eligibility_limiter, llm_service>>

\* handler h writes obj through its name session and goes on at pc
WriteSession(h, obj, pc) ==
    /\ sessions' = IF tasks[h].attached
                   THEN [sessions EXCEPT ![tasks[h].session_id] = obj]
                   ELSE sessions
    /\ tasks' = IF tasks[h].attached
                THEN [tasks EXCEPT ![h].pc = pc]
                ELSE [tasks EXCEPT ![h].pc = pc, ![h].orphan = obj]
    /\ UNCHANGED <<chat_limiter, last>>
    /\ TurnFrame

\* handler h answers its request and is free again
Respond(h, response) ==
    /\ last' = [op |-> "chat", time |-> tasks[h].t, session_id |-> tasks[h].session_id,
                message |-> tasks[h].message, user_profile |-> tasks[h].user_profile,
                status |-> response.status, detail |-> response.detail,
                response |-> response.response, schemes |-> response.schemes,
                next_question |-> response.next_question,
                handler |-> h, token |-> tasks[h].token, gemini |-> tasks[h].gemini,
                before |-> tasks[h].before, attached |-> tasks[h].attached]
    /\ UNCHANGED chat_limiter
    /\ TurnFrame

\* lines 183-189: the request arrives, chat_limiter.is_allowed is called
ChatBegin(h, session_id, message, user_profile, token, gemini) ==
    /\ tasks[h].pc = "idle"
    /\ Scheduled(h)
    /\ IsAllowed(chat_limiter, session_id, now).allowed
    /\ chat_limiter' = IsAllowed(chat_limiter, session_id, now).rl
    /\ tasks' = [tasks EXCEPT ![h] =
                    [pc |-> "line50", session_id |-> session_id, message |-> message,
                     user_profile |-> user_profile, token |-> token, gemini |-> gemini,
                     t |-> now, attached |-> FALSE, orphan |-> NewSession(now, token),
                     expired |-> {}, missing |-> FALSE, profile |-> UserProfile,
                     eligible_schemes |-> << >>, response_text |-> "",
                     before |-> [chat_limiter |-> chat_limiter, sessions |-> sessions]]]
    /\ UNCHANGED <<sessions, last>>
    /\ TurnFrame

\* lines 50-57: the id is validated, the expired ids are collected
ChatExpired(h) ==
    /\ tasks[h].pc = "line50"
    /\ Scheduled(h)
    /\ IF ValidSessionId(tasks[h].session_id)
       THEN /\ tasks' = [tasks EXCEPT ![h].pc = "line58",
                                      ![h].expired = Expired(sessions, tasks[h].t)]
            /\ UNCHANGED <<chat_limiter, last>>
            /\ TurnFrame
       ELSE /\ tasks' = [tasks EXCEPT ![h] = IdleTask]
            /\ Respond(h, HttpError(400, "Invalid session_id format. Must be a valid UUID."))
    /\ UNCHANGED sessions

\* lines 58-59: the expired ids are deleted; del raises KeyError for an id that
\* is no longer there
ChatSweep(h) ==
    /\ tasks[h].pc = "line58"
    /\ Scheduled(h)
    /\ IF tasks[h].expired \subseteq DOMAIN sessions
       THEN /\ sessions' = DictDel(sessions, tasks[h].expired)
            /\ tasks' = [Detached(tasks, tasks[h].expired) EXCEPT ![h].pc = "line62"]
            /\ UNCHANGED <<chat_limiter, last>>
            /\ TurnFrame
       ELSE /\ sessions' = DictDel(sessions, tasks[h].expired)
            /\ tasks' = [Detached(tasks, tasks[h].expired) EXCEPT ![h] = IdleTask]
            /\ Respond(h, HttpError(500, "Internal Server Error"))

\* line 62: is the id in the map
ChatLookup(h) ==
    /\ tasks[h].pc = "line62"
    /\ Scheduled(h)
    /\ tasks' = [tasks EXCEPT ![h].pc = "line63",
                              ![h].missing = tasks[h].session_id \notin DOMAIN sessions]
    /\ UNCHANGED <<sessions, chat_limiter, last>>
    /\ TurnFrame

\* lines 63-72: the session is created or touched, and returned
ChatSession(h) ==
    /\ tasks[h].pc = "line63"
    /\ Scheduled(h)
    /\ IF tasks[h].missing
       THEN /\ sessions' = DictSet(sessions, tasks[h].session_id,
                                   NewSession(tasks[h].t, tasks[h].token))
            /\ tasks' = [Detached(tasks, {tasks[h].session_id} \cap DOMAIN sessions)
                            EXCEPT ![h].pc = "line195", ![h].attached = TRUE]
            /\ UNCHANGED <<chat_limiter, last>>
            /\ TurnFrame
       ELSE IF tasks[h].session_id \in DOMAIN sessions
       THEN /\ sessions' = [sessions EXCEPT ![tasks[h].session_id].last_accessed =
                                                tasks[h].t]
            /\ tasks' = [tasks EXCEPT ![h].pc = "line195", ![h].attached = TRUE]
            /\ UNCHANGED <<chat_limiter, last>>
            /\ TurnFrame
       ELSE /\ tasks' = [tasks EXCEPT ![h] = IdleTask]
            /\ Respond(h, HttpError(500, "Internal Server Error"))
            /\ UNCHANGED sessions

\* lines 194-203: the explicit values overwrite
ChatOverrides(h) ==
    /\ tasks[h].pc = "line195"
    /\ Scheduled(h)
    /\ WriteSession(h, [SessionOf(h) EXCEPT !.user_profile =
                            ApplyOverrides(@, tasks[h].user_profile)], "line206")

\* line 206: the profile is rebound to the result of extract_profile_info
ChatExtract(h) ==
    /\ tasks[h].pc = "line206"
    /\ Scheduled(h)
    /\ WriteSession(h, [SessionOf(h) EXCEPT !.user_profile =
                            ExtractProfileInfo(tasks[h].message, @)], "line209")

\* lines 209-212: the message is appended to the history
ChatAppendUser(h) ==
    /\ tasks[h].pc = "line209"
    /\ Scheduled(h)
    /\ WriteSession(h, [SessionOf(h) EXCEPT !.conversation_history =
                            Append(@, HistoryEntry("user", tasks[h].message))], "line215")

\* lines 215-216, 232-244: the profile is read; when it is complete the schemes
\* are evaluated and the reply is generated and sanitized
ChatGenerate(h) ==
    /\ tasks[h].pc = "line215"
    /\ Scheduled(h)
    /\ tasks' = [tasks EXCEPT
                    ![h].pc = "line218",
                    ![h].profile = SessionOf(h).user_profile,
                    ![h].eligible_schemes =
                        IF IsNone(GetNextProfileQuestion(SessionOf(h).user_profile))
                        THEN EligibleSchemes(SessionOf(h).user_profile) ELSE << >>,
                    ![h].response_text =
                        IF IsNone(GetNextProfileQuestion(SessionOf(h).user_profile))
                        THEN Sanitized(GenerateResponse(
                                 llm_service, tasks[h].gemini, tasks[h].message,
                                 EligibleSchemes(SessionOf(h).user_profile)))
                        ELSE Val(GetNextProfileQuestion(SessionOf(h).user_profile))]
    /\ UNCHANGED <<sessions, chat_limiter, last>>
    /\ TurnFrame

\* lines 218-229, 246-256: the reply is appended to the history and returned
ChatReturn(h) ==
    /\ tasks[h].pc = "line218"
    /\ Scheduled(h)
    /\ sessions' = IF tasks[h].attached
                   THEN [sessions EXCEPT ![tasks[h].session_id].conversation_history =
                            Append(@, HistoryEntry("assistant", tasks[h].response_text))]
                   ELSE sessions
    /\ tasks' = [tasks EXCEPT ![h] = IdleTask]
    /\ Respond(h, IF IsNone(GetNextProfileQuestion(tasks[h].profile))
                  THEN ChatResponse(tasks[h].response_text, tasks[h].eligible_schemes, None)
                  ELSE ChatResponse(tasks[h].response_text, << >>,
                                    Some(tasks[h].response_text)))

\* time passes between the requests; a turn reads the clock twice within
\* microseconds, which is no time in seconds
TurnTick ==
    /\ \A h \in Handlers : tasks[h].pc = "idle"
    /\ ChatTick

\* the (message, user_profile) pairs of the requests for the session
TurnRequests ==
    {<<"I am 20 years old", [UserProfile EXCEPT !.category = Some("OBC")]>>,
     <<"Hello", FullProfile>>}

\* requests for one session id, handled by either handler
NextTurns ==
    \/ \E h \in Handlers, rq \in TurnRequests,
          token \in Tokens, gemini \in GeminiOutcomes(llm_service) :
            /\ Turns(SidA) < MaxTurns
            /\ ChatBegin(h, SidA, rq[1], rq[2], token, gemini)
    \/ \E h \in Handlers : ChatExpired(h)
    \/ \E h \in Handlers : ChatSweep(h)
    \/ \E h \in Handlers : ChatLookup(h)
    \/ \E h \in Handlers : ChatSession(h)
    \/ \E h \in Handlers : ChatOverrides(h)
    \/ \E h \in Handlers : ChatExtract(h)
    \/ \E h \in Handlers : ChatAppendUser(h)
    \/ \E h \in Handlers : ChatGenerate(h)
    \/ \E h \in Handlers : ChatReturn(h)
    \/ TurnTick

SpecTurns == InitChat /\ [][NextTurns]_vars

----------------------------------------------------------------------------
(* One client whose requests carry explicit values that the request model  *)
(* of POST /eligibility would refuse: UserProfile (schemas.py:12-13)       *)
(* declares age and income as Optional[int] without a range.               *)

\* the (message, user_profile) pairs of the client
RangeRequests ==
    {<<"Hello", [UserProfile EXCEPT !.age = Some(150)]>>,
     <<"Hello", [UserProfile EXCEPT !.age = Some(0)]>>,
     <<"Hello", [UserProfile EXCEPT !.income = Some(0 - 1)]>>,
     <<"I am 20 years old", UserProfile>>,
     <<"2 lakhs per year", UserProfile>>}

NextRange ==
    \/ \E rq \in RangeRequests : ChatTurn(SidA, rq[1], rq[2], MaxTurns)
    \/ ChatTick

SpecRange == InitChat /\ [][NextRange]_vars

----------------------------------------------------------------------------
(* Clients whose session ids have the length and the alphabet of the       *)
(* pattern of chat.py:36 but not the form of a UUID.                       *)

\* 36 hyphens
SidHyphens == "------------------------------------"

\* 36 hex digits without a hyphen
SidHexOnly == "3f2504e04f8941d39a0c0305e82c33010000"

\* a UUID followed by a newline
SidNewline == SidA \o "\n"

\* the session ids of the requests
ShapedIds == {SidA, SidHyphens, SidHexOnly, SidNewline}

NextIds ==
    \/ \E session_id \in ShapedIds : ChatTurn(session_id, "Hello", UserProfile, MaxTurns)
    \/ ChatMalformed

SpecIds == InitChat /\ [][NextIds]_vars

----------------------------------------------------------------------------
(* One client that sends requests as fast as it can, so that chat_limiter  *)
(* (20 requests in 60 seconds) rejects it, next to a client that is idle.  *)

\* one request of the hurried client
ChatFlood == Chat(SidA, "Hello", UserProfile, "token-1", GeminiRaises)

\* time passes: first the session timeout, then one second more, which is
\* within the window of chat_limiter and past the timeout of a session
\* touched at the start
FloodTick ==
    /\ now \in {0, SessionTimeout}
    /\ now' = IF now = 0 THEN SessionTimeout ELSE SessionTimeout + 1
    /\ UNCHANGED <<tasks, reference, sms_service, scheme_catalog, limiter, admitted,
                   sms_limiter, chat_limiter, eligibility_limiter, sessions,
                   llm_service, last>>

NextFlood ==
    \/ ChatFlood
    \/ ChatTurn(SidB, "I am 20 years old", UserProfile, MaxTurns)
    \/ FloodTick

SpecFlood == InitLimiters /\ [][NextFlood]_vars

----------------------------------------------------------------------------
(* One client that comes back after its session has expired: the clock     *)
(* jumps past SESSION_TIMEOUT_MINUTES once, after the client has a session *)

\* the client stays away for one second more than the timeout
IdleTick ==
    /\ now = 0
    /\ SidA \in DOMAIN sessions
    /\ now' = now + SessionTimeout + 1
    /\ UNCHANGED <<tasks, reference, sms_service, scheme_catalog, limiter, admitted, sms_limiter, chat_limiter,
                   eligibility_limiter, sessions, llm_service, last>>

NextIdle ==
    \/ \E rq \in Requests : ChatTurn(SidA, rq[1], rq[2], MaxTurns)
    \/ IdleTick

SpecIdle == InitChat /\ [][NextIdle]_vars

----------------------------------------------------------------------------
(* Claims about the RateLimiter class, checked under SpecRL *)

Front(s) == SubSeq(s, 1, Len(s) - 1)

\* the requests admitted for the key of the last is_allowed call before that call
PriorAdmitted ==
    IF last.allowed THEN Front(admitted[last.key]) ELSE admitted[last.key]

AllWithinWindow(ts, t) == \A i \in 1..Len(ts) : t - ts[i] < limiter.window_seconds

AllPastWindow(ts, t) == \A i \in 1..Len(ts) : t - ts[i] > limiter.window_seconds

\* C1: on a key whose recorded requests all lie within the window of the call,
\* the call is admitted while fewer than max_requests were admitted before it
\* (so N calls in a row from a fresh key all succeed), it is rejected when
\* max_requests were admitted before it (the N+1-th call), and a call made more
\* than window_seconds after every admitted request is admitted again.
C1_FillRejectRecover ==
    last.op = "is_allowed" =>
        LET prior == PriorAdmitted
            N == limiter.max_requests
        IN  /\ (AllWithinWindow(prior, last.time) /\ Len(prior) < N)
                => (last.allowed /\ last.remaining = N - Len(prior))
            /\ (AllWithinWindow(prior, last.time) /\ Len(prior) = N)
                => (~last.allowed /\ last.remaining = 0)
            /\ AllPastWindow(prior, last.time) => last.allowed

\* C1 witness: a key was filled to max_requests, and a call made more than a
\* window later has just been admitted
C1_Witness ==
    /\ last.op = "is_allowed"
    /\ last.allowed
    /\ limiter.max_requests >= 2
    /\ Len(PriorAdmitted) = limiter.max_requests
    /\ AllPastWindow(PriorAdmitted, last.time)

\* C2: the stored timestamp sequence of every key has length at most max_requests
C2_LengthAtMostMax ==
    \A k \in DOMAIN limiter.requests :
        Len(limiter.requests[k]) <= limiter.max_requests

\* C2 witness: a key is at its limit, a call on it has just been rejected
C2_Witness ==
    /\ last.op = "is_allowed"
    /\ ~last.allowed
    /\ limiter.max_requests >= 2
    /\ last.key \in DOMAIN limiter.requests
    /\ Len(limiter.requests[last.key]) = limiter.max_requests

----------------------------------------------------------------------------
(* Claims about the chat endpoint *)

Fields == {"age", "income", "state", "category"}

\* the last request was a chat turn answered 200
LastTurnServed == IF last.op = "chat" THEN last.status = 200 ELSE FALSE

\* the last request carried the malformed id and was answered 400
LastMalformedRejected ==
    IF last.op = "chat" THEN last.session_id = SidMalformed /\ last.status = 400 ELSE FALSE

\* the profile stored for the session of the last turn
LastProfile == sessions[last.session_id].user_profile

\* a step that handles a request with the malformed id
MalformedStep == Chat(SidMalformed, "Hello", UserProfile, "token-1", GeminiRaises)

\* C3: a chat turn with a malformed session_id is rejected as a client error and
\* has no side effect at all: the session map and every rate limiter,
\* chat_limiter with its entry for that id included, are as before the request.
C3_MalformedNoSideEffects ==
    [][MalformedStep =>
          /\ last'.status = 400
          /\ sessions' = sessions
          /\ chat_limiter' = chat_limiter
          /\ sms_limiter' = sms_limiter
          /\ eligibility_limiter' = eligibility_limiter]_vars

\* C3 witness: the malformed request was answered 400 and chat_limiter holds a
\* timestamp under the malformed id
C3_Witness ==
    /\ LastMalformedRejected
    /\ SidMalformed \in DOMAIN chat_limiter.requests
    /\ chat_limiter.requests[SidMalformed] = << last.time >>

\* C4: a chat turn with a malformed session_id never adds, removes or modifies
\* an entry of the session map: the same ids are stored, each with the same
\* profile, history, last_accessed and token, and none under the malformed id.
C4_MalformedLeavesSessions ==
    [][MalformedStep =>
          /\ DOMAIN sessions' = DOMAIN sessions
          /\ \A sid \in DOMAIN sessions : sessions'[sid] = sessions[sid]
          /\ SidMalformed \notin DOMAIN sessions']_vars

\* C4 witness: the malformed request was rejected at a time when the map held a
\* session that a sweep would have removed, and the session is still there
C4_Witness ==
    /\ LastMalformedRejected
    /\ Expired(sessions, last.time) # {}

\* C5: a turn handled for one valid id changes neither the profile nor the
\* history stored for another id whose session is unexpired; and a session
\* created by a turn has only the fields that the turn's own request supplies,
\* whatever the other session holds: it is asked for the age unless its own
\* request carries one.
C5_SessionsIsolated ==
    [][sessions' # sessions =>
          LET a == last'.session_id
              request == Found(last'.message)
          IN  /\ \A b \in DOMAIN sessions \ {a} :
                    b \notin Expired(sessions, now) =>
                        /\ b \in DOMAIN sessions'
                        /\ sessions'[b].user_profile = sessions[b].user_profile
                        /\ sessions'[b].conversation_history = sessions[b].conversation_history
              /\ ~Live(a) =>
                    /\ \A f \in Fields :
                          ~IsNone(sessions'[a].user_profile[f]) =>
                              (~IsNone(last'.user_profile[f]) \/ ~IsNone(request[f]))
                    /\ (IsNone(last'.user_profile.age) /\ IsNone(request.age)) =>
                              last'.next_question = Some(AgePrompt)]_vars

\* C5 witness: while the session of SidA is live and has its age, a first turn
\* on SidB that states no age has just been asked for the age
C5_Witness ==
    /\ LastTurnServed
    /\ last.session_id = SidB
    /\ last.next_question = Some(AgePrompt)
    /\ Len(sessions[SidB].conversation_history) = 2
    /\ IsNone(sessions[SidB].user_profile.age)
    /\ SidA \in DOMAIN sessions
    /\ SidA \notin Expired(sessions, last.time)
    /\ ~IsNone(sessions[SidA].user_profile.age)

\* C6: while a session lives, a field that is set stays set through every later
\* turn, and keeps its value through every turn that carries no explicit value
\* for it.
C6_SetFieldsPersist ==
    [][sessions' # sessions =>
          LET sid == last'.session_id
          IN  Live(sid) =>
                \A f \in Fields :
                    ~IsNone(sessions[sid].user_profile[f]) =>
                        /\ ~IsNone(sessions'[sid].user_profile[f])
                        /\ IsNone(last'.user_profile[f]) =>
                              sessions'[sid].user_profile[f] = sessions[sid].user_profile[f]]_vars

\* C6 witness: the first turn gave age 50 and category OBC explicitly, the second
\* turn gave no explicit value, and both are still stored
C6_Witness ==
    /\ LastTurnServed
    /\ last.user_profile = UserProfile
    /\ Len(sessions[last.session_id].conversation_history) = 4
    /\ LastProfile.age = Some(50)
    /\ LastProfile.category = Some("OBC")

\* C7: after an admitted turn, next_question is non-null exactly when the stored
\* profile is incomplete; then the scheme list is empty and the reply is the
\* question; when the profile is complete next_question is null and the scheme
\* list is the eligible set of the stored profile.
C7_NextQuestionIffIncomplete ==
    LastTurnServed =>
        IF IsComplete(LastProfile)
        THEN /\ IsNone(last.next_question)
             /\ last.schemes = GetEligibleSchemes(ToDict(LastProfile))
        ELSE /\ ~IsNone(last.next_question)
             /\ last.schemes = << >>
             /\ last.response = Val(last.next_question)

\* C7 witness: a turn completed the profile and returned schemes
C7_Witness ==
    /\ LastTurnServed
    /\ IsComplete(LastProfile)
    /\ IsNone(last.next_question)
    /\ Len(last.schemes) > 0

\* C8: when the profile is incomplete after a turn, the prompt returned is the
\* fixed prompt of the first unset field in the order age, income, state,
\* category, and the four prompts differ.
C8_PromptOfFirstUnsetField ==
    /\ \A i, j \in 1..4 :
          LET prompts == << AgePrompt, IncomePrompt, StatePrompt, CategoryPrompt >>
          IN  i # j => prompts[i] # prompts[j]
    /\ (LastTurnServed /\ ~IsComplete(LastProfile)) =>
          /\ IsNone(LastProfile.age) => last.next_question = Some(AgePrompt)
          /\ (~IsNone(LastProfile.age) /\ IsNone(LastProfile.income)) =>
                last.next_question = Some(IncomePrompt)
          /\ (~IsNone(LastProfile.age) /\ ~IsNone(LastProfile.income)
                /\ IsNone(LastProfile.state)) =>
                last.next_question = Some(StatePrompt)
          /\ (~IsNone(LastProfile.age) /\ ~IsNone(LastProfile.income)
                /\ ~IsNone(LastProfile.state)) =>
                last.next_question = Some(CategoryPrompt)

\* C8 witness: the category is set, the income is not, and the income is asked
C8_Witness ==
    /\ LastTurnServed
    /\ ~IsNone(LastProfile.age)
    /\ IsNone(LastProfile.income)
    /\ ~IsNone(LastProfile.category)
    /\ last.next_question = Some(IncomePrompt)

\* the messages of scenario D, in order, and the prompts that answer the first four
ScenarioD == << "Hello", "I am 20 years old", "2 lakhs per year", "Maharashtra", "General" >>
PromptsD == << AgePrompt, IncomePrompt, StatePrompt, CategoryPrompt >>

\* the user messages of the session of SidA are the first k messages of scenario D
FollowsScenarioD(k) ==
    IF SidA \in DOMAIN sessions
    THEN LET history == sessions[SidA].conversation_history
         IN  /\ Len(history) = 2 * k
             /\ \A i \in 1..k : history[2 * i - 1].content = ScenarioD[i]
    ELSE FALSE

\* C9: in a session that received no explicit profile, after the first k
\* messages of scenario D: for k = 1 the reply is the age prompt with no
\* schemes, for k = 2 the income prompt, for k = 3 and 4 the state and category
\* prompts, and for k = 5 next_question is null, the scheme list is non-empty
\* and the profile is age 20, income 200000, Maharashtra, General.
C9_ScenarioD ==
    \A k \in 1..5 :
        FollowsScenarioD(k) =>
            /\ LastTurnServed
            /\ last.message = ScenarioD[k]
            /\ \A i \in 1..k : i <= 4 =>
                  sessions[SidA].conversation_history[2 * i].content = PromptsD[i]
            /\ k <= 4 => /\ last.next_question = Some(PromptsD[k])
                         /\ last.schemes = << >>
            /\ k = 5 => /\ IsNone(last.next_question)
                        /\ Len(last.schemes) > 0
                        /\ sessions[SidA].user_profile = FullProfile

\* C9 witness: the five turns of scenario D were handled and schemes returned
C9_Witness ==
    /\ FollowsScenarioD(5)
    /\ IsNone(last.next_question)
    /\ Len(last.schemes) > 0

\* C10: a first turn of a session that carries age 20 explicitly and the
\* message "I am 20 years old" sets only the age: the income is asked and no
\* scheme is returned.
C10_ExplicitAgeSetsOnlyAge ==
    (/\ LastTurnServed
     /\ last.message = "I am 20 years old"
     /\ last.user_profile = [UserProfile EXCEPT !.age = Some(20)]
     /\ Len(sessions[last.session_id].conversation_history) = 2) =>
        /\ LastProfile = [UserProfile EXCEPT !.age = Some(20)]
        /\ last.next_question = Some(IncomePrompt)
        /\ last.schemes = << >>

\* C10 witness: such a turn was handled; the income is stored as well and the
\* state is asked
C10_Witness ==
    /\ LastTurnServed
    /\ last.message = "I am 20 years old"
    /\ last.user_profile = [UserProfile EXCEPT !.age = Some(20)]
    /\ Len(sessions[last.session_id].conversation_history) = 2
    /\ LastProfile.age = Some(20)
    /\ LastProfile.income = Some(2000000)
    /\ last.next_question = Some(StatePrompt)

----------------------------------------------------------------------------
(* Claims about the eligibility evaluator, checked under SpecSchemes *)

\* the last operation was a call of is_eligible
LastIsEligible == last.op = "is_eligible"

\* the catalog record the last call of is_eligible was made with
LastScheme == scheme_catalog[last.scheme]

\* the four criteria of a record, each on its own
AgeInRange(p, s) == s.age_min <= p.age /\ p.age <= s.age_max
IncomeWithin(p, s) == p.income <= s.income_max
CategoryOpen(p, s) == s.category = "ALL" \/ s.category = p.category
StateOpen(p, s) == s.state = "ALL" \/ s.state = p.state

\* C11: is_eligible returns true exactly when age_min <= age <= age_max,
\* income <= income_max, the record's category is "ALL" or the profile's, and
\* the record's state is "ALL" or the profile's; the age bounds and the income
\* ceiling are inclusive and an income of income_max + 1 is not eligible.
C11_EligibleIffAllCriteria ==
    LastIsEligible =>
        /\ last.eligible <=> /\ AgeInRange(last.user_profile, LastScheme)
                             /\ IncomeWithin(last.user_profile, LastScheme)
                             /\ CategoryOpen(last.user_profile, LastScheme)
                             /\ StateOpen(last.user_profile, LastScheme)
        /\ last.user_profile.income = LastScheme.income_max + 1 => ~last.eligible

\* C11 witness: a profile that meets the age, category and state criteria of a
\* record and earns one rupee more than its ceiling was found not eligible
C11_Witness ==
    /\ LastIsEligible
    /\ AgeInRange(last.user_profile, LastScheme)
    /\ CategoryOpen(last.user_profile, LastScheme)
    /\ StateOpen(last.user_profile, LastScheme)
    /\ last.user_profile.income = LastScheme.income_max + 1
    /\ ~last.eligible

\* the rejection reasons of the four criteria
AgeRejection(s) ==
    "Age must be between " \o IntToStr(s.age_min) \o "-" \o IntToStr(s.age_max)
IncomeRejection(s) == "Income must be below Rs." \o FormatComma(s.income_max)
CategoryRejection(s) == "This scheme is for " \o s.category \o " category only"
StateRejection(s) == "This scheme is only for " \o s.state

\* the reason of the first criterion the profile fails, in the order age,
\* income, category, state
FirstFailure(p, s) ==
    IF ~AgeInRange(p, s) THEN AgeRejection(s)
    ELSE IF ~IncomeWithin(p, s) THEN IncomeRejection(s)
    ELSE IF ~CategoryOpen(p, s) THEN CategoryRejection(s)
    ELSE StateRejection(s)

\* C12: the reason of a rejection is that of the first failing criterion in
\* the order age, income, category, state, whatever else fails as well.
C12_ReasonOfFirstFailure ==
    (LastIsEligible /\ ~last.eligible) =>
        last.reason = FirstFailure(last.user_profile, LastScheme)

\* C12 witness: a profile failed all four criteria of a record and the age was
\* reported
C12_Witness ==
    /\ LastIsEligible
    /\ ~AgeInRange(last.user_profile, LastScheme)
    /\ ~IncomeWithin(last.user_profile, LastScheme)
    /\ ~CategoryOpen(last.user_profile, LastScheme)
    /\ ~StateOpen(last.user_profile, LastScheme)
    /\ last.reason = AgeRejection(LastScheme)

\* the last operation was a call of get_eligible_schemes
LastGetEligible == last.op = "get_eligible_schemes"

\* a returned element without the field get_eligible_schemes adds
WithoutReason(e) == [f \in DOMAIN e \ {"eligibilityReason"} |-> e[f]]

\* the records of the catalog is_eligible accepts for the profile, in
\* catalog order
Accepted(p, catalog) == SelectSeq(catalog, LAMBDA s : IsEligible(p, s)[1])

\* the ids of a list of schemes
Ids(list) == [i \in 1..Len(list) |-> list[i].id]

\* C13: get_eligible_schemes returns exactly the catalog records for which
\* is_eligible is true, in catalog order and each once, and every returned
\* element carries a non-empty eligibilityReason.
C13_EligibleInCatalogOrder ==
    LastGetEligible =>
        /\ [i \in 1..Len(last.schemes) |-> WithoutReason(last.schemes[i])]
              = Accepted(last.user_profile, SCHEMES)
        /\ \A i, j \in 1..Len(last.schemes) :
              last.schemes[i].id = last.schemes[j].id => i = j
        /\ \A i \in 1..Len(last.schemes) :
              /\ "eligibilityReason" \in DOMAIN last.schemes[i]
              /\ last.schemes[i].eligibilityReason # ""

\* C13 witness: a call returned several schemes, not adjacent in the catalog
C13_Witness ==
    /\ LastGetEligible
    /\ Ids(last.schemes) = << "scheme_1", "scheme_4", "scheme_6", "scheme_7" >>

\* C14: get_eligible_schemes never mutates the catalog: whatever calls were
\* made, every record of SCHEMES has the fields and values it had at load
\* time and none has an eligibilityReason field.
C14_CatalogNeverMutated ==
    /\ scheme_catalog = SCHEMES
    /\ \A i \in 1..Len(scheme_catalog) :
          "eligibilityReason" \notin DOMAIN scheme_catalog[i]

\* C14 witness: a call returned schemes with their reasons and the catalog is
\* as loaded
C14_Witness ==
    /\ LastGetEligible
    /\ Len(last.schemes) > 0
    /\ \A i \in 1..Len(last.schemes) : last.schemes[i].eligibilityReason # ""
    /\ scheme_catalog = SCHEMES

\* the profile of scenario A
ScenarioA == [age |-> 20, income |-> 200000, state |-> "Maharashtra", category |-> "General"]

\* C15: for the profile {age 20, income 200000, Maharashtra, General} the
\* eligible set includes scheme_1 (ALL/ALL) and scheme_4 (Maharashtra) and
\* holds no scheme restricted to OBC, SC or ST and none restricted to another
\* state.
C15_ScenarioA ==
    (LastGetEligible /\ last.user_profile = ScenarioA) =>
        /\ \E i \in 1..Len(last.schemes) :
              /\ last.schemes[i].id = "scheme_1"
              /\ last.schemes[i].state = "ALL"
              /\ last.schemes[i].category = "ALL"
        /\ \E i \in 1..Len(last.schemes) :
              /\ last.schemes[i].id = "scheme_4"
              /\ last.schemes[i].state = "Maharashtra"
        /\ \A i \in 1..Len(last.schemes) :
              /\ last.schemes[i].category \notin {"OBC", "SC", "ST"}
              /\ last.schemes[i].state \in {"ALL", "Maharashtra"}

\* C15 witness: get_eligible_schemes was called with the profile of scenario A
\* and returned four schemes
C15_Witness ==
    /\ LastGetEligible
    /\ last.user_profile = ScenarioA
    /\ Len(last.schemes) = 4

\* C16: the catalog has exactly ten records; in each age_min <= age_max,
\* income_max >= 0 and the documents list is not empty; no two share an id.
C16_CatalogWellFormed ==
    /\ Len(scheme_catalog) = 10
    /\ \A i \in 1..Len(scheme_catalog) :
          /\ scheme_catalog[i].age_min <= scheme_catalog[i].age_max
          /\ scheme_catalog[i].income_max >= 0
          /\ Len(scheme_catalog[i].documents) > 0
    /\ \A i, j \in 1..Len(scheme_catalog) :
          scheme_catalog[i].id = scheme_catalog[j].id => i = j

\* C16 witness: the evaluator ran over the ten records, the last of them
\* included
C16_Witness ==
    /\ LastIsEligible
    /\ last.scheme = 10
    /\ Len(scheme_catalog) = 10
    /\ scheme_catalog[10].id = "scheme_10"

----------------------------------------------------------------------------
(* A further claim about the RateLimiter class, checked under SpecRL *)

\* C17: a call of is_allowed that returns allowed = false leaves the limiter
\* as it was: the same keys, and for every key the same stored timestamps.
C17_RejectionLeavesLimiter ==
    [][\A key \in Keys :
          (RLIsAllowed(key) /\ ~last'.allowed) =>
              /\ DOMAIN limiter'.requests = DOMAIN limiter.requests
              /\ \A k \in DOMAIN limiter.requests :
                    limiter'.requests[k] = limiter.requests[k]
              /\ limiter' = limiter]_vars

\* C17 witness: a call was rejected while the other key had timestamps stored
\* too, and the limiter holds max_requests timestamps of the rejected key
C17_Witness ==
    /\ last.op = "is_allowed"
    /\ ~last.allowed
    /\ DOMAIN limiter.requests = Keys
    /\ \A k \in Keys : Len(limiter.requests[k]) > 0
    /\ Len(limiter.requests[last.key]) = limiter.max_requests

----------------------------------------------------------------------------
(* Claims about the session store, checked with two clients (SpecPair)     *)
(* and with one (Spec)                                                     *)

\* the sessions of a map idle for more than 30 minutes at time t
Stale(sess, t) ==
    {sid \in DOMAIN sess : t - sess[sid].last_accessed > SESSION_TIMEOUT_MINUTES * 60}

\* C18: a lookup with a valid id at time t first removes every session whose
\* last access is more than 30 minutes before t, and only those, so that the
\* map holds no such session right after it; a stale session stays in the map
\* while time passes, until a lookup is made.
C18_LookupSweepsStale ==
    [][/\ sessions' # sessions =>
             /\ Stale(sessions', now) = {}
             /\ DOMAIN sessions' =
                   (DOMAIN sessions \ Stale(sessions, now)) \cup {last'.session_id}
       /\ now' # now => sessions' = sessions]_vars

\* C18 witness: a lookup for one id has removed the other client's session,
\* which had been created (the limiter remembers its request) and gone stale
C18_Witness ==
    /\ LastTurnServed
    /\ last.session_id = SidB
    /\ SidA \in DOMAIN chat_limiter.requests
    /\ SidA \notin DOMAIN sessions
    /\ SidB \in DOMAIN sessions


\* the explicit values of the request that overrides age and category
OverrideAgeCategory == [UserProfile EXCEPT !.age = Some(50), !.category = Some("OBC")]

\* C19: once the four profile fields of a session are set, no later turn on
\* that session changes a profile field, whatever explicit values it carries.
C19_CompleteProfileFrozen ==
    [][\A sid \in DOMAIN sessions :
          (/\ IsComplete(sessions[sid].user_profile)
           /\ Live(sid)
           /\ sid \in DOMAIN sessions') =>
              sessions'[sid].user_profile = sessions[sid].user_profile]_vars

\* C19, as the handler has it: once the four profile fields of a session are
\* set they stay set, and a later turn on that session changes a field only to
\* the explicit value the turn carries for it; the message changes nothing.
C19_CompleteChangesOnlyByExplicit ==
    [][\A sid \in DOMAIN sessions :
          (/\ IsComplete(sessions[sid].user_profile)
           /\ Live(sid)
           /\ sid \in DOMAIN sessions'
           /\ sessions'[sid] # sessions[sid]) =>
              /\ last'.session_id = sid
              /\ IsComplete(sessions'[sid].user_profile)
              /\ \A f \in Fields :
                    sessions'[sid].user_profile[f] =
                        IF IsNone(last'.user_profile[f])
                        THEN sessions[sid].user_profile[f]
                        ELSE last'.user_profile[f]]_vars

\* C19 witness: a session completed by the explicit profile of its first turn
\* received a second turn with another age and category, and stores them
C19_Witness ==
    /\ LastTurnServed
    /\ last.user_profile = OverrideAgeCategory
    /\ Len(sessions[last.session_id].conversation_history) = 4
    /\ LastProfile = [FullProfile EXCEPT !.age = Some(50), !.category = Some("OBC")]

----------------------------------------------------------------------------
(* A claim about extract_profile_info, checked under SpecExtract *)

\* the order in which extract_profile_info looks at the fields
FieldOrder == << "age", "income", "state", "category" >>

\* the positions in FieldOrder of the unset fields of a profile
UnsetPositions(p) == {i \in 1..Len(FieldOrder) : IsNone(p[FieldOrder[i]])}

\* the fields a call changed
Changed(before, after) == {f \in Fields : after[f] # before[f]}

\* the last operation was a call of extract_profile_info
LastExtract == last.op = "extract_profile_info"

\* C20: extract_profile_info never changes a field that is set and fills at
\* most one field per call: the first unset one in the order age, income,
\* state, category; when the message holds no value for that field the
\* profile is returned as it was, whatever later fields the message names.
C20_OnlyFirstUnsetField ==
    LastExtract =>
        /\ \A f \in Fields : ~IsNone(last.profile[f]) => last.result[f] = last.profile[f]
        /\ Cardinality(Changed(last.profile, last.result)) <= 1
        /\ \A i \in 1..Len(FieldOrder) :
              FieldOrder[i] \in Changed(last.profile, last.result) =>
                  /\ i \in UnsetPositions(last.profile)
                  /\ \A j \in UnsetPositions(last.profile) : i <= j
        /\ \A i \in UnsetPositions(last.profile) :
              (/\ \A j \in UnsetPositions(last.profile) : i <= j
               /\ IsNone(last.result[FieldOrder[i]])) =>
                  last.result = last.profile

\* C20 witness: the age was set, the message named a state and a category but
\* no income, and the profile came back as it was, state and category unset
C20_Witness ==
    /\ LastExtract
    /\ last.message = "Maharashtra General"
    /\ ~IsNone(last.profile.age)
    /\ IsNone(last.profile.income)
    /\ IsNone(last.profile.state)
    /\ IsNone(last.profile.category)
    /\ last.result = last.profile

----------------------------------------------------------------------------
(* Further claims about the chat turn, checked under Spec *)

\* the profile a turn on the id starts from: the stored one, or a fresh one
\* when the id has no session that survives the sweep
PriorProfile(sid) == IF Live(sid) THEN sessions[sid].user_profile ELSE UserProfile

\* C21: in a chat turn every explicit value that is not null is the value
\* stored for its field after the turn, whatever was stored and whatever the
\* message says; an explicit null leaves a stored value as it was (an unset
\* field stays unset or takes what the message yields for it).
C21_ExplicitValuesStored ==
    [][sessions' # sessions =>
          \A f \in Fields :
              IF ~IsNone(last'.user_profile[f])
              THEN sessions'[last'.session_id].user_profile[f] = last'.user_profile[f]
              ELSE IF ~IsNone(PriorProfile(last'.session_id)[f])
              THEN sessions'[last'.session_id].user_profile[f]
                      = PriorProfile(last'.session_id)[f]
              ELSE sessions'[last'.session_id].user_profile[f]
                      \in {None, Found(last'.message)[f]}]_vars

\* C21 witness: the age 20 taken from a message was replaced by the explicit
\* age 50 of the next turn, whose null income left the income unset
C21_Witness ==
    /\ LastTurnServed
    /\ last.user_profile = OverrideAgeCategory
    /\ Len(sessions[last.session_id].conversation_history) = 4
    /\ sessions[last.session_id].conversation_history[1].content = "I am 20 years old"
    /\ LastProfile.age = Some(50)
    /\ LastProfile.category = Some("OBC")

----------------------------------------------------------------------------
(* Claims about the sms route, checked under SpecSms *)

\* the last operation was a request POST /sms
LastSms == last.op = "sms"

\* C22: the sms operation looks the scheme up first (not found when the id is
\* not in the catalog), then rate-limits by phone, then delegates: a request
\* with a valid phone and an unknown scheme id is answered not found.
C22_UnknownSchemeNotFound ==
    (/\ LastSms
     /\ ValidPhone(last.phone)
     /\ \A i \in 1..Len(scheme_catalog) : scheme_catalog[i].id # last.scheme_id) =>
        last.status_code = 404

\* C22 witness: a request with a valid phone and an unknown scheme id was
\* answered 429, the sixth of the phone's window
C22_Witness ==
    /\ LastSms
    /\ ValidPhone(last.phone)
    /\ last.scheme_id = "invalid_scheme"
    /\ last.status_code = 429
    /\ Len(sms_limiter.requests[last.phone]) = 5

\* C23: requests to send each of the ten catalog schemes to one valid phone
\* number, one after another, all succeed with status "sent".
C23_EveryCatalogSchemeSent ==
    (/\ LastSms
     /\ ValidPhone(last.phone)
     /\ \E i \in 1..Len(scheme_catalog) : scheme_catalog[i].id = last.scheme_id
     /\ last.twilio = "ok") =>
        /\ last.status_code = 200
        /\ last.status = "sent"

\* C23 witness: a request for a catalog scheme to a valid phone was answered
\* 429 after five requests of the same phone in the window
C23_Witness ==
    /\ LastSms
    /\ ValidPhone(last.phone)
    /\ last.scheme_id = "scheme_6"
    /\ last.status_code = 429
    /\ last.status # "sent"
    /\ Len(sms_limiter.requests[last.phone]) = 5

----------------------------------------------------------------------------
(* A claim about the reply of a turn with a complete profile, checked      *)
(* under SpecReply                                                         *)

\* the reply the claim expects for a list of eligible schemes, by its length
FallbackReply(eligible) ==
    IF Len(eligible) = 0
    THEN "Based on your profile, I couldn't find any schemes you're currently eligible for. However, eligibility criteria can change, so I recommend checking back periodically or exploring options to meet the requirements for specific schemes."
    ELSE IF Len(eligible) = 1
    THEN "Great news! You're eligible for **" \o eligible[1].name
         \o "**. This scheme offers: " \o eligible[1].benefits
    ELSE IF Len(eligible) = 2
    THEN "Excellent! You're eligible for 2 schemes: **" \o eligible[1].name \o "**, **"
         \o eligible[2].name
         \o "**. Each scheme has unique benefits tailored to your needs. Check out the details below!"
    ELSE IF Len(eligible) = 3
    THEN "Excellent! You're eligible for 3 schemes: **" \o eligible[1].name \o "**, **"
         \o eligible[2].name \o "**, **" \o eligible[3].name
         \o "**. Each scheme has unique benefits tailored to your needs. Check out the details below!"
    ELSE "Wonderful! You're eligible for **" \o IntToStr(Len(eligible))
         \o " government schemes**! This gives you multiple options to choose from based on your specific educational goals. Review the schemes below to see which ones align best with your needs."

\* C24: when the text generation is unavailable or fails in a turn with a
\* complete profile, the turn is still served: the reply is the template
\* chosen by the number of eligible schemes, the eligible schemes are
\* returned, and the reply is appended to the history after the message.
C24_FallbackTemplate ==
    [][(/\ sessions' # sessions
        /\ Chat(SidA, "Hello", last'.user_profile, "token-1", GeminiRaises)) =>
              /\ last'.status = 200
              /\ IsNone(last'.next_question)
              /\ last'.schemes = GetEligibleSchemes(ToDict(last'.user_profile))
              /\ last'.response = FallbackReply(last'.schemes)
              /\ Len(sessions'[SidA].conversation_history) >= 2
              /\ SubSeq(sessions'[SidA].conversation_history,
                        Len(sessions'[SidA].conversation_history) - 1,
                        Len(sessions'[SidA].conversation_history))
                    = << [role |-> "user", content |-> "Hello"],
                         [role |-> "assistant", content |-> last'.response] >>]_vars

\* C24 witness: the text generation was available and failed in a turn with
\* one eligible scheme; the reply names the scheme and is in the history
C24_Witness ==
    /\ llm_service.available
    /\ LastTurnServed
    /\ Len(last.schemes) = 1
    /\ last.response = "Great news! You're eligible for **" \o last.schemes[1].name
                       \o "**. This scheme offers: " \o last.schemes[1].benefits
    /\ sessions[SidA].conversation_history[Len(sessions[SidA].conversation_history)].content
          = last.response

----------------------------------------------------------------------------
(* A claim about the eligibility route, checked under SpecEligibility *)

\* C27: a direct eligibility check touches the eligibility limiter and the
\* evaluator only: the session map with every profile and history, the chat
\* limiter and the sms limiter are as before, and the result is that of the
\* evaluator for the submitted profile, whatever the sessions hold.
C27_EligibilityCheckFrame ==
    [][(last'.op = "eligibility" /\ Eligibility(last'.client_ip, last'.request)) =>
          /\ sessions' = sessions
          /\ chat_limiter' = chat_limiter
          /\ sms_limiter' = sms_limiter
          /\ last'.status = 200 =>
                /\ last'.eligible_schemes = GetEligibleSchemes(last'.request)
                /\ last'.count = Len(last'.eligible_schemes)]_vars

\* C27 witness: a check for the profile of scenario A was answered with its
\* four schemes while the session of the chat client stores age 20 and
\* category OBC
C27_Witness ==
    /\ last.op = "eligibility"
    /\ last.status = 200
    /\ last.count = 4
    /\ SidA \in DOMAIN sessions
    /\ sessions[SidA].user_profile.category = Some("OBC")
    /\ SidA \in DOMAIN chat_limiter.requests
    /\ DOMAIN eligibility_limiter.requests # {}

----------------------------------------------------------------------------
(* Claims about the stored timestamps and cleanup(), checked under SpecRL *)

\* every timestamp stored for key lies in the window that trails t
WithinWindow(rl, key, t) ==
    \A i \in 1..Len(rl.requests[key]) :
        /\ rl.requests[key][i] >= t - rl.window_seconds
        /\ rl.requests[key][i] <= t

\* every timestamp stored for key is one the pruning at time t keeps
Fresh(rl, key, t) ==
    \A i \in 1..Len(rl.requests[key]) :
        /\ rl.requests[key][i] > t - rl.window_seconds
        /\ rl.requests[key][i] <= t

\* C29 as stated: in every reachable state, as time advances between calls,
\* every timestamp stored for every key lies within [now - window_seconds, now].
C29_StoredWithinWindow ==
    \A k \in DOMAIN limiter.requests : WithinWindow(limiter, k, now)

\* C29 amended: the pruning is lazy.  Right after is_allowed(key) every
\* timestamp stored for that key, and right after cleanup() every timestamp
\* stored for any key, is newer than now - window_seconds and not later than
\* now; and while time advances between calls nothing is removed, so a
\* timestamp older than the window stays stored until then.
C29_FreshAfterCall ==
    [][/\ \A key \in Keys : RLIsAllowed(key) => Fresh(limiter', key, now)
       /\ RLCleanup => \A k \in DOMAIN limiter'.requests : Fresh(limiter', k, now)
       /\ RLTick => limiter' = limiter]_vars

\* C29 witness: the call on k1 has pruned its own list down to the request just
\* admitted, while the timestamp of k2, older than the window, is still stored
C29_Witness ==
    /\ last.op = "is_allowed"
    /\ last.key = "k1"
    /\ last.time = now
    /\ Len(admitted["k1"]) >= 2
    /\ limiter.requests["k1"] = <<now>>
    /\ "k2" \in DOMAIN limiter.requests
    /\ limiter.requests["k2"] # <<>>
    /\ ~WithinWindow(limiter, "k2", now)

\* C30: cleanup() is a no-op for admission decisions: every is_allowed call of
\* a sequence with cleanup() calls inserted at arbitrary points returns the
\* (allowed, remaining) that the same call returns in the sequence without
\* them (the limiter reference receives the same is_allowed calls at the same
\* times and no cleanup); and after cleanup() every remaining key has a
\* timestamp newer than now - window_seconds.
C30_CleanupTransparent ==
    [][/\ \A key \in Keys :
            RLIsAllowed(key) =>
                /\ last'.allowed = IsAllowed(reference, key, now).allowed
                /\ last'.remaining = IsAllowed(reference, key, now).remaining
       /\ RLCleanup =>
            \A k \in DOMAIN limiter'.requests :
                \E i \in 1..Len(limiter'.requests[k]) :
                    limiter'.requests[k][i] > now - limiter.window_seconds]_vars

\* C30 witness: a call on k1 is answered after a cleanup() that removed the
\* key k2, which the limiter without cleanup still stores, and the limiter
\* was full for k1 once
C30_Witness ==
    /\ last.op = "is_allowed"
    /\ last.key = "k1"
    /\ last.allowed
    /\ Len(admitted["k1"]) > limiter.max_requests
    /\ "k2" \notin DOMAIN limiter.requests
    /\ "k2" \in DOMAIN reference.requests
    /\ reference.requests["k2"] # <<>>

----------------------------------------------------------------------------
(* A claim about the three limiter instances, checked under SpecLimiters *)

\* the time t and later ones: within the window of a request made at t, at
\* its end and after it
LaterTimes(t) == {t, t + 30, t + 60, t + 61}

\* the timestamps stored for key, none when the key is not stored
Stored(rl, key) == IF key \in DOMAIN rl.requests THEN rl.requests[key] ELSE << >>

\* C28: rate-limit decisions are independent across instances and keys: an
\* is_allowed call on one (limiter, key) pair changes, for every other pair
\* (another key of the same limiter, any key of another limiter), neither the
\* stored timestamps nor the result and effect of a later is_allowed call.
C28_LimitersIndependent ==
    [][(last'.op = "is_allowed" /\ LimiterIsAllowed(last'.limiter, last'.key)) =>
              \A n \in LimiterNames, k \in Keys :
                  <<n, k>> # <<last'.limiter, last'.key>> =>
                      /\ Stored(Limiters'[n], k) = Stored(Limiters[n], k)
                      /\ (k \in DOMAIN Limiters'[n].requests)
                            = (k \in DOMAIN Limiters[n].requests)
                      /\ \A t \in LaterTimes(now) :
                            /\ IsAllowed(Limiters'[n], k, t).allowed
                                  = IsAllowed(Limiters[n], k, t).allowed
                            /\ IsAllowed(Limiters'[n], k, t).remaining
                                  = IsAllowed(Limiters[n], k, t).remaining
                            /\ Stored(IsAllowed(Limiters'[n], k, t).rl, k)
                                  = Stored(IsAllowed(Limiters[n], k, t).rl, k)]_vars

\* C28 witness: the chat limiter has just admitted k1 while the sms limiter
\* stores a request of the same key, the eligibility limiter one of k2 and
\* none of k1, and the chat limiter itself one of k2
C28_Witness ==
    /\ last.op = "is_allowed"
    /\ last.limiter = "chat_limiter"
    /\ last.key = "k1"
    /\ last.allowed
    /\ Stored(chat_limiter, "k1") # << >>
    /\ Stored(sms_limiter, "k1") # << >>
    /\ Stored(eligibility_limiter, "k2") # << >>
    /\ Stored(chat_limiter, "k2") # << >>
    /\ "k1" \notin DOMAIN eligibility_limiter.requests

----------------------------------------------------------------------------
(* A claim about is_allowed calls in flight at once, checked under SpecRace *)

\* how often the timestamp t occurs in the sequence q
Occurrences(q, t) == Cardinality({i \in 1..Len(q) : q[i] = t})

----------------------------------------------------------------------------
(* A claim about chat turns in flight at once, checked under SpecTurns *)

----------------------------------------------------------------------------
(* A claim about the range of the stored profile, checked under SpecRange *)

\* C31: in every reachable state the age of every session profile, when set,
\* is an integer in [1, 120] and its income, when set, is a non-negative
\* integer, whether the value came from an explicit override or from
\* extraction.
C31_ProfileInRange ==
    \A sid \in DOMAIN sessions :
        /\ ~IsNone(sessions[sid].user_profile.age) =>
              /\ Val(sessions[sid].user_profile.age) \in Int
              /\ 1 <= Val(sessions[sid].user_profile.age)
              /\ Val(sessions[sid].user_profile.age) <= 120
        /\ ~IsNone(sessions[sid].user_profile.income) =>
              /\ Val(sessions[sid].user_profile.income) \in Int
              /\ Val(sessions[sid].user_profile.income) >= 0

\* C31 witness: the turn with the explicit age 150 was answered with 200 and
\* the session stores that age
C31_Witness ==
    /\ last.op = "chat"
    /\ last.status = 200
    /\ last.user_profile.age = Some(150)
    /\ SidA \in DOMAIN sessions
    /\ sessions[SidA].user_profile.age = Some(150)

----------------------------------------------------------------------------
(* A claim about the form of the session ids, checked under SpecIds *)

\* lower-case hex digits
IsHexChar(c) == IsDigit(c) \/ c \in {"a", "b", "c", "d", "e", "f"}

\* the canonical textual form of a unique identifier: 36 characters, hex
\* digits in groups of 8, 4, 4, 4 and 12 separated by hyphens
CanonicalId(s) ==
    /\ Len(s) = 36
    /\ \A i \in 1..36 :
          IF i \in {9, 14, 19, 24} THEN Ch(s, i) = "-" ELSE IsHexChar(Ch(s, i))

\* C32: a session is created only for ids in the canonical form; every id of
\* another shape (36 hyphens, 36 hex digits without hyphens) is rejected as a
\* validation error and no session is keyed by it.
C32_OnlyCanonicalIds ==
    /\ \A sid \in DOMAIN sessions : CanonicalId(sid)
    /\ (last.op = "chat" /\ ~CanonicalId(last.session_id)) => last.status = 400

\* C32 witness: the turn with the id of 36 hyphens was answered with 200 and a
\* session is stored under that id
C32_Witness ==
    /\ last.op = "chat"
    /\ last.session_id = SidHyphens
    /\ last.status = 200
    /\ SidHyphens \in DOMAIN sessions
    /\ SidHexOnly \in DOMAIN sessions
    /\ SidNewline \in DOMAIN sessions

----------------------------------------------------------------------------
(* Claims about the conversation history, checked under SpecPair *)

\* the sequence p is an initial part of the sequence q
IsPrefix(p, q) == Len(p) <= Len(q) /\ SubSeq(q, 1, Len(p)) = p

\* C33: the history of a session is append-only while the session lives: a
\* step leaves a session that is not expired in the map, with the entries it
\* had, in their order, at the start of its history; and every entry has the
\* role user or assistant.
C33_HistoryAppendOnly ==
    [][\A sid \in DOMAIN sessions :
          sid \notin Expired(sessions, now) =>
              /\ sid \in DOMAIN sessions'
              /\ IsPrefix(sessions[sid].conversation_history,
                          sessions'[sid].conversation_history)
              /\ \A i \in 1..Len(sessions'[sid].conversation_history) :
                    sessions'[sid].conversation_history[i].role \in {"user", "assistant"}]_vars

\* C33 witness: the second turn of a session was served, its history holds the
\* entries of both turns, and the other session has a history of its own
C33_Witness ==
    /\ last.op = "chat"
    /\ last.status = 200
    /\ last.session_id = SidA
    /\ SidA \in DOMAIN sessions
    /\ Len(sessions[SidA].conversation_history) = 4
    /\ sessions[SidA].conversation_history[1].content = "I am 20 years old"
    /\ sessions[SidA].conversation_history[3].content = "Hello"
    /\ SidB \in DOMAIN sessions
    /\ Len(sessions[SidB].conversation_history) = 2

----------------------------------------------------------------------------
(* Claims about the boundary of the window, checked under SpecRL *)

\* how many timestamps stored for key are strictly newer than t - window_seconds
Counted(rl, key, t) ==
    Cardinality({i \in 1..Len(Stored(rl, key)) :
                    Stored(rl, key)[i] > t - rl.window_seconds})

\* C34: in is_allowed a stored timestamp exactly window_seconds old is
\* discarded and does not count against the quota: the call is admitted
\* exactly when fewer than max_requests stored timestamps are strictly newer
\* than now - window_seconds, remaining is the quota less their number, and
\* no timestamp equal to now - window_seconds is stored afterwards; so a key
\* at its limit is admitted again at exactly window_seconds after its oldest
\* counted request.
C34_BoundaryDiscarded ==
    [][(last'.op = "is_allowed" /\ RLIsAllowed(last'.key)) =>
          /\ last'.allowed = (Counted(limiter, last'.key, now) < limiter.max_requests)
          /\ last'.allowed =>
                last'.remaining = limiter.max_requests - Counted(limiter, last'.key, now)
          /\ \A i \in 1..Len(limiter'.requests[last'.key]) :
                limiter'.requests[last'.key][i] # now - limiter.window_seconds
          /\ (/\ Len(Stored(limiter, last'.key)) = limiter.max_requests
              /\ Stored(limiter, last'.key)[1] = now - limiter.window_seconds)
                => last'.allowed]_vars

\* C34 witness: k1 was at its limit of two with the oldest request at time 0,
\* and the call at time 60 = 0 + window_seconds has been admitted
C34_Witness ==
    /\ last.op = "is_allowed"
    /\ last.key = "k1"
    /\ last.allowed
    /\ last.remaining = 1
    /\ now = 60
    /\ limiter.max_requests = 2
    /\ limiter.window_seconds = 60
    /\ admitted["k1"] = <<0, 30, 60>>
    /\ limiter.requests["k1"] = <<30, 60>>


\* how many requests of key were admitted in the window (t - window_seconds, t]
AdmittedWithin(key, t) ==
    Cardinality({i \in 1..Len(admitted[key]) :
                    /\ admitted[key][i] > t - limiter.window_seconds
                    /\ admitted[key][i] <= t})

\* the instants at which the number of admitted requests in the trailing
\* window can grow: the admission times of the key; and the present
Instants(key) == {admitted[key][i] : i \in 1..Len(admitted[key])} \cup {now}

\* C35: the sliding-window guarantee, with calls executed one at a time: for
\* every key and every instant t, at most max_requests requests of the key
\* were admitted at a time in (t - window_seconds, t], whatever the timing of
\* the calls (the number is largest at an instant at which a request was
\* admitted).
C35_SlidingWindow ==
    \A key \in Keys :
        \A t \in Instants(key) : AdmittedWithin(key, t) <= limiter.max_requests

\* C35 witness: k1 was admitted four times with a quota of two, the third
\* time as soon as the first request had left the window, and the call last
\* made was rejected
C35_Witness ==
    /\ last.op = "is_allowed"
    /\ last.key = "k1"
    /\ ~last.allowed
    /\ limiter.max_requests = 2
    /\ admitted["k1"] = <<0, 30, 60, 90>>
    /\ AdmittedWithin("k1", now) = 2
    /\ now = 90

----------------------------------------------------------------------------
(* A claim about the turns chat_limiter rejects, checked under SpecFlood *)

\* C36: a chat turn rejected by the chat rate limiter is answered 429 and
\* leaves the session store unchanged: no session is created, no expiry sweep
\* runs, last_accessed is not refreshed, and neither profile nor history
\* changes.
C36_RejectedLeavesSessions ==
    [][(ChatFlood /\ ~IsAllowed(chat_limiter, SidA, now).allowed) =>
          /\ last'.status = 429
          /\ DOMAIN sessions' = DOMAIN sessions
          /\ \A sid \in DOMAIN sessions :
                /\ sessions'[sid].user_profile = sessions[sid].user_profile
                /\ sessions'[sid].conversation_history = sessions[sid].conversation_history
                /\ sessions'[sid].last_accessed = sessions[sid].last_accessed
                /\ sessions'[sid].session_token = sessions[sid].session_token]_vars

\* C36 witness: the twenty-first request within a minute was rejected at a
\* time when the session of the idle client is expired and still stored, and
\* the session of the hurried client keeps the last_accessed of its last
\* admitted turn
C36_Witness ==
    /\ last.op = "chat"
    /\ last.session_id = SidA
    /\ last.status = 429
    /\ last.time = now
    /\ SidB \in DOMAIN sessions
    /\ SidB \in Expired(sessions, now)
    /\ SidA \in DOMAIN sessions
    /\ sessions[SidA].last_accessed < now
    /\ Len(Pruned(chat_limiter, SidA, now)) = 20


----------------------------------------------------------------------------
(* Claims about expiry and the shape of the history, checked with two      *)
(* clients (SpecPair) and with one (Spec)                                  *)

\* the sessions of a map whose last access is at most 30 minutes before t
Unexpired(sess, t) ==
    {sid \in DOMAIN sess : t - sess[sid].last_accessed <= SESSION_TIMEOUT_MINUTES * 60}

\* C37: the expiry sweep never evicts a live session: a lookup at time t
\* removes no session whose last access is at most 30 minutes before t
\* (exactly 30 minutes included): the session of another id is left as it is,
\* the session of the id looked up keeps its token and its history, which the
\* turn extends; and the session the lookup creates or touches is in the map
\* after it, with last_accessed = t.
C37_SweepKeepsLive ==
    [][/\ \A sid \in Unexpired(sessions, now) :
             /\ sid \in DOMAIN sessions'
             /\ sessions'[sid].session_token = sessions[sid].session_token
             /\ IsPrefix(sessions[sid].conversation_history,
                         sessions'[sid].conversation_history)
             /\ sid # last'.session_id => sessions'[sid] = sessions[sid]
       /\ sessions' # sessions =>
             /\ last'.session_id \in DOMAIN sessions'
             /\ sessions'[last'.session_id].last_accessed = now]_vars

\* C37 witness: a turn of one client was served at the instant the session of
\* the other client has been idle for exactly 30 minutes, and that session is
\* still stored with its history
C37_Witness ==
    /\ LastTurnServed
    /\ last.session_id = SidA
    /\ last.time = now
    /\ sessions[SidA].last_accessed = now
    /\ SidB \in DOMAIN sessions
    /\ now - sessions[SidB].last_accessed = SESSION_TIMEOUT_MINUTES * 60
    /\ Len(sessions[SidB].conversation_history) = 2


\* C38: a chat turn on a valid session id whose session has been idle for
\* more than 30 minutes is served from a newly created session: nothing of the
\* previous profile and history is retained, the profile after the turn is
\* what the turn's own explicit values and message give on four unset fields,
\* the history holds the two entries of this turn only, and the response asks
\* for the first field that this profile is missing.
C38_IdleSessionReplaced ==
    [][(/\ sessions' # sessions
        /\ last'.session_id \in DOMAIN sessions
        /\ now - sessions[last'.session_id].last_accessed > SESSION_TIMEOUT_MINUTES * 60) =>
          /\ sessions'[last'.session_id].user_profile =
                ExtractProfileInfo(last'.message,
                                   ApplyOverrides(UserProfile, last'.user_profile))
          /\ sessions'[last'.session_id].conversation_history =
                <<HistoryEntry("user", last'.message),
                  HistoryEntry("assistant", last'.response)>>
          /\ last'.next_question =
                GetNextProfileQuestion(sessions'[last'.session_id].user_profile)
          /\ sessions'[last'.session_id].last_accessed = now]_vars

\* C38 witness: the client, whose earlier session was stored when it went
\* idle, has greeted again after the timeout; the session holds this turn only,
\* no profile field is set and the response asks for the age
C38_Witness ==
    /\ LastTurnServed
    /\ now = SESSION_TIMEOUT_MINUTES * 60 + 1
    /\ last.time = now
    /\ last.message = "Hello"
    /\ last.user_profile = UserProfile
    /\ sessions[SidA].user_profile = UserProfile
    /\ Len(sessions[SidA].conversation_history) = 2
    /\ last.next_question = GetNextProfileQuestion(UserProfile)
    /\ ~IsNone(last.next_question)


\* the roles of a history alternate, starting with the user
Alternates(history) ==
    \A i \in 1..Len(history) :
        history[i].role = (IF i % 2 = 1 THEN "user" ELSE "assistant")

\* the history the session of an id holds at time t, empty when the lookup at
\* t finds no session or one idle for more than 30 minutes
Carried(sess, session_id, t) ==
    IF session_id \in Unexpired(sess, t)
    THEN sess[session_id].conversation_history
    ELSE << >>

\* C39: every admitted chat turn with a valid session id appends exactly two
\* history entries, the user's message followed by the assistant's reply (the
\* prompt when a field is missing, the reply returned otherwise); so the
\* length of a history grows by two per turn from zero at creation, is even
\* between turns, and the roles alternate starting with user.
C39_TwoEntriesPerTurn ==
    [][/\ sessions' # sessions =>
             /\ sessions'[last'.session_id].conversation_history =
                   Carried(sessions, last'.session_id, now)
                       \o <<HistoryEntry("user", last'.message),
                            HistoryEntry("assistant", last'.response)>>
             /\ ~IsNone(last'.next_question) =>
                   last'.response = Val(last'.next_question)
       /\ \A sid \in DOMAIN sessions' :
             /\ Len(sessions'[sid].conversation_history) % 2 = 0
             /\ Alternates(sessions'[sid].conversation_history)]_vars

\* C39 witness: the second turn of a session completed the profile; the
\* history holds four entries, the prompt of the first turn second and the
\* reply of this turn last
C39_Witness ==
    /\ LastTurnServed
    /\ last.session_id = SidA
    /\ IsNone(last.next_question)
    /\ Len(sessions[SidA].conversation_history) = 4
    /\ sessions[SidA].conversation_history[1].role = "user"
    /\ sessions[SidA].conversation_history[2] =
          HistoryEntry("assistant", Val(GetNextProfileQuestion(UserProfile)))
    /\ sessions[SidA].conversation_history[3] = HistoryEntry("user", last.message)
    /\ sessions[SidA].conversation_history[4] = HistoryEntry("assistant", last.response)


----------------------------------------------------------------------------
(* Claims about the calls of the chat handler, checked with the client     *)
(* that answers what it is asked (SpecDialogue)                            *)

\* the collaborators the chat flow calls with the profile
Collaborators == {"get_eligible_schemes", "generate_response"}

\* C40: in the chat flow the eligibility evaluator and the text generation
\* are called only with a profile whose four fields are set, which is the
\* profile the session holds after the turn; a turn that leaves a field unset
\* calls neither and answers with the prompt and no schemes.
C40_EvaluatedOnlyWhenComplete ==
    [][last'.op = "chat" =>
          /\ \A i \in 1..Len(last'.calls) :
                /\ last'.calls[i].fn \in Collaborators
                /\ \A f \in Fields : ~IsNone(last'.calls[i].profile[f])
                /\ last'.calls[i].profile = sessions'[last'.session_id].user_profile
          /\ (/\ last'.status = 200
              /\ \E f \in Fields : IsNone(sessions'[last'.session_id].user_profile[f])) =>
                /\ last'.calls = << >>
                /\ last'.schemes = << >>
                /\ ~IsNone(last'.next_question)]_vars

\* C40 witness: the client has answered the four prompts; the turn with the
\* fourth answer called the evaluator and the text generation with the
\* complete profile, the three turns before it called neither (the history
\* holds their prompts)
C40_Witness ==
    /\ LastTurnServed
    /\ Len(last.calls) = 2
    /\ last.calls[1] = Invocation("get_eligible_schemes", sessions[SidA].user_profile)
    /\ last.calls[2].fn = "generate_response"
    /\ \A f \in Fields : ~IsNone(sessions[SidA].user_profile[f])
    /\ Len(sessions[SidA].conversation_history) = 8
    /\ sessions[SidA].conversation_history[6].content = CategoryPrompt

=============================================================================
